---- MODULE Spec2Model ----
(***************************************************************************)
(* The offline mod_rewrite engine of htaccess-tester-vscode: the line      *)
(* parser (engine/parser.ts), the evaluator (engine/evaluator.ts) and the  *)
(* regex safety layer (engine/regex-safety.ts).                            *)
(*                                                                         *)
(* Strings of the program are TLA+ strings; TLC evaluates Len, \o and      *)
(* SubSeq on them, so every string operation of the source is computed     *)
(* character by character as the source computes it.  A nullable value is  *)
(* Null (the empty tuple) or Some(v) (a one-element tuple).                *)
(***************************************************************************)
EXTENDS Integers, Sequences, FiniteSets, TLC

VARIABLES input, config, doc, i, state, pendingConditions, trace, pc, output,
          client, panel, workspaceState

vars == <<input, config, doc, i, state, pendingConditions, trace, pc, output,
          client, panel, workspaceState>>

\* the variables of one evaluate call
engineVars == <<input, config, doc, i, state, pendingConditions, trace, pc, output>>

Null == <<>>

Some(v) == <<v>>

IsNull(x) == x = <<>>

Val(x) == x[1]

\* the extension host while no request is in flight, no message is handled and
\* nothing is stored: workspaceState.get(STORAGE_KEY, []) is []
ExtensionIdle ==
    /\ client = [pc |-> "idle", maxRetries |-> 0, attempt |-> 0, lastError |-> Null,
                 requests |-> <<>>, slept |-> <<>>, returned |-> Null, thrown |-> Null]
    /\ panel = [pc |-> "idle", payload |-> Null, posted |-> <<>>]
    /\ workspaceState = <<>>

\* ------------------------------------------------------------------------
\* String primitives (JavaScript String methods used by the source)
\* ------------------------------------------------------------------------

Ch(s, k) == SubSeq(s, k, k)

\* s.slice(k - 1): the suffix starting at the 1-based position k
From(s, k) == SubSeq(s, k, Len(s))

StartsWith(s, p) == Len(p) <= Len(s) /\ SubSeq(s, 1, Len(p)) = p

EndsWith(s, p) == Len(p) <= Len(s) /\ SubSeq(s, Len(s) - Len(p) + 1, Len(s)) = p

\* s.indexOf(sub) as a 1-based position, 0 when absent
IndexOf(s, sub) ==
    LET hits == {k \in 1..(Len(s) - Len(sub) + 1) : SubSeq(s, k, k + Len(sub) - 1) = sub}
    IN  IF hits = {} THEN 0 ELSE CHOOSE k \in hits : \A j \in hits : k <= j

Includes(s, sub) == IndexOf(s, sub) /= 0

\* the characters \s matches among those the inputs contain
IsSpace(c) == c \in {" ", "\t", "\r", "\n"}

RECURSIVE TrimStart(_)
TrimStart(s) ==
    IF Len(s) > 0 /\ IsSpace(Ch(s, 1)) THEN TrimStart(From(s, 2)) ELSE s

RECURSIVE TrimEnd(_)
TrimEnd(s) ==
    IF Len(s) > 0 /\ IsSpace(Ch(s, Len(s))) THEN TrimEnd(SubSeq(s, 1, Len(s) - 1)) ELSE s

Trim(s) == TrimEnd(TrimStart(s))

UpperChars == "ABCDEFGHIJKLMNOPQRSTUVWXYZ"

LowerChars == "abcdefghijklmnopqrstuvwxyz"

CaseMap(c, from, to) ==
    LET k == IndexOf(from, c) IN IF k = 0 THEN c ELSE Ch(to, k)

RECURSIVE MapCase(_, _, _)
MapCase(s, from, to) ==
    IF s = "" THEN "" ELSE CaseMap(Ch(s, 1), from, to) \o MapCase(From(s, 2), from, to)

ToLower(s) == MapCase(s, UpperChars, LowerChars)

ToUpper(s) == MapCase(s, LowerChars, UpperChars)

\* s.split(sep) for a one-character separator
RECURSIVE Split(_, _)
Split(s, sep) ==
    LET k == IndexOf(s, sep)
    IN  IF k = 0 THEN <<s>>
        ELSE <<SubSeq(s, 1, k - 1)>> \o Split(From(s, k + 1), sep)

Digits == "0123456789"

IsDigit(c) == Len(c) = 1 /\ IndexOf(Digits, c) /= 0

RECURSIVE DigitsValue(_, _)
DigitsValue(s, acc) ==
    IF Len(s) > 0 /\ IsDigit(Ch(s, 1))
    THEN DigitsValue(From(s, 2), 10 * acc + (IndexOf(Digits, Ch(s, 1)) - 1))
    ELSE acc

\* parseInt(s, 10): Null stands for NaN (no leading digits); signs are not
\* among the inputs
parseInt(s) ==
    LET t == TrimStart(s)
    IN  IF Len(t) > 0 /\ IsDigit(Ch(t, 1)) THEN Some(DigitsValue(t, 0)) ELSE Null

\* parseInt(value, 10) || fallback
parseIntOr(s, fallback) ==
    LET n == parseInt(s)
    IN  IF IsNull(n) \/ Val(n) = 0 THEN fallback ELSE Val(n)

\* ------------------------------------------------------------------------
\* AST defaults (engine/ast.ts)
\* ------------------------------------------------------------------------

defaultCondFlags == [nocase |-> FALSE, ornext |-> FALSE]

defaultRuleFlags ==
    [last |-> FALSE, redirect |-> Null, nocase |-> FALSE, qsappend |-> FALSE,
     qsdiscard |-> FALSE, noescape |-> FALSE, next |-> FALSE, end |-> FALSE,
     forbidden |-> FALSE, gone |-> FALSE, chain |-> FALSE, skip |-> Null,
     passthrough |-> FALSE, proxy |-> FALSE, type |-> Null, env |-> <<>>,
     cookie |-> <<>>]

\* ------------------------------------------------------------------------
\* Parser (engine/parser.ts)
\* ------------------------------------------------------------------------

ParseErrorNode(rawLine, lineNo, message) ==
    [kind |-> "ParseError", sourceLineNo |-> lineNo, rawLine |-> rawLine,
     message |-> message]

parseRewriteEngine(rawLine, lineNo, args) ==
    LET on  == ToLower(args) = "on"
        off == ToLower(args) = "off"
    IN  IF ~on /\ ~off
        THEN ParseErrorNode(rawLine, lineNo, "Invalid RewriteEngine value: " \o args)
        ELSE [kind |-> "RewriteEngine", sourceLineNo |-> lineNo, rawLine |-> rawLine,
              on |-> on]

parseRewriteBase(rawLine, lineNo, args) ==
    IF args = ""
    THEN ParseErrorNode(rawLine, lineNo, "RewriteBase requires a path argument")
    ELSE [kind |-> "RewriteBase", sourceLineNo |-> lineNo, rawLine |-> rawLine,
          base |-> args]

\* the character loop shared, text for text, by splitCondArgs and splitRuleArgs
RECURSIVE SplitArgsLoop(_, _, _, _, _, _)
SplitArgsLoop(args, k, result, current, inQuote, quoteChar) ==
    IF k > Len(args)
    THEN IF current /= "" THEN Append(result, current) ELSE result
    ELSE LET char == Ch(args, k) IN
         IF ~inQuote /\ (char = "\"" \/ char = "'")
         THEN SplitArgsLoop(args, k + 1, result, current, TRUE, char)
         ELSE IF inQuote /\ char = quoteChar
         THEN SplitArgsLoop(args, k + 1, result, current, FALSE, "")
         ELSE IF ~inQuote /\ IsSpace(char)
         THEN IF current /= ""
              THEN SplitArgsLoop(args, k + 1, Append(result, current), "", inQuote, quoteChar)
              ELSE SplitArgsLoop(args, k + 1, result, current, inQuote, quoteChar)
         ELSE SplitArgsLoop(args, k + 1, result, current \o char, inQuote, quoteChar)

splitCondArgs(args) == SplitArgsLoop(args, 1, <<>>, "", FALSE, "")

splitRuleArgs(args) == SplitArgsLoop(args, 1, <<>>, "", FALSE, "")

\* flagsStr.replace(/^\[|\]$/g, '')
StripBrackets(flagsStr) ==
    LET a == IF StartsWith(flagsStr, "[") THEN From(flagsStr, 2) ELSE flagsStr
    IN  IF EndsWith(a, "]") THEN SubSeq(a, 1, Len(a) - 1) ELSE a

CondFlagStep(flags, part) ==
    LET flag == ToUpper(Trim(part))
    IN  IF flag \in {"NC", "NOCASE"} THEN [flags EXCEPT !.nocase = TRUE]
        ELSE IF flag \in {"OR", "ORNEXT"} THEN [flags EXCEPT !.ornext = TRUE]
        ELSE flags

\* for (const part of parts) { switch (flag) ... }
RECURSIVE CondFlagLoop(_, _, _)
CondFlagLoop(flags, parts, k) ==
    IF k > Len(parts) THEN flags ELSE CondFlagLoop(CondFlagStep(flags, parts[k]), parts, k + 1)

parseCondFlags(flagsStr) ==
    IF flagsStr = "" THEN defaultCondFlags
    ELSE LET cleaned == StripBrackets(flagsStr)
         IN  IF cleaned = "" THEN defaultCondFlags
             ELSE CondFlagLoop(defaultCondFlags, Split(cleaned, ","), 1)

parseRewriteCond(rawLine, lineNo, args) ==
    LET parts == splitCondArgs(args) IN
    IF Len(parts) < 2
    THEN ParseErrorNode(rawLine, lineNo, "RewriteCond requires TestString and CondPattern")
    ELSE LET flagsStr  == IF Len(parts) > 2 THEN parts[3] ELSE ""
             isNegated == StartsWith(parts[2], "!")
         IN  [kind |-> "RewriteCond", sourceLineNo |-> lineNo, rawLine |-> rawLine,
              testString |-> parts[1],
              condPattern |-> IF isNegated THEN From(parts[2], 2) ELSE parts[2],
              flags |-> parseCondFlags(flagsStr),
              isNegated |-> isNegated]

RuleFlagStep(flags, part) ==
    LET flag      == Trim(part)
        upperFlag == ToUpper(flag)
    IN  IF Includes(flag, "=")
        THEN LET pieces    == Split(flag, "=")
                 upperName == ToUpper(pieces[1])
                 value     == pieces[2]
             IN  IF upperName \in {"R", "REDIRECT"}
                     THEN [flags EXCEPT !.redirect = Some(parseIntOr(value, 302))]
                 ELSE IF upperName \in {"S", "SKIP"}
                     THEN [flags EXCEPT !.skip = Some(parseIntOr(value, 1))]
                 ELSE IF upperName \in {"T", "TYPE"}
                     THEN [flags EXCEPT !.type = Some(value)]
                 ELSE IF upperName \in {"E", "ENV"}
                     THEN [flags EXCEPT !.env = Append(@, value)]
                 ELSE IF upperName \in {"CO", "COOKIE"}
                     THEN [flags EXCEPT !.cookie = Append(@, value)]
                 ELSE flags
        ELSE IF upperFlag \in {"L", "LAST"} THEN [flags EXCEPT !.last = TRUE]
        ELSE IF upperFlag \in {"R", "REDIRECT"} THEN [flags EXCEPT !.redirect = Some(302)]
        ELSE IF upperFlag \in {"NC", "NOCASE"} THEN [flags EXCEPT !.nocase = TRUE]
        ELSE IF upperFlag \in {"QSA", "QSAPPEND"} THEN [flags EXCEPT !.qsappend = TRUE]
        ELSE IF upperFlag \in {"QSD", "QSDISCARD"} THEN [flags EXCEPT !.qsdiscard = TRUE]
        ELSE IF upperFlag \in {"NE", "NOESCAPE"} THEN [flags EXCEPT !.noescape = TRUE]
        ELSE IF upperFlag \in {"N", "NEXT"} THEN [flags EXCEPT !.next = TRUE]
        ELSE IF upperFlag = "END" THEN [flags EXCEPT !.end = TRUE]
        ELSE IF upperFlag \in {"F", "FORBIDDEN"} THEN [flags EXCEPT !.forbidden = TRUE]
        ELSE IF upperFlag \in {"G", "GONE"} THEN [flags EXCEPT !.gone = TRUE]
        ELSE IF upperFlag \in {"C", "CHAIN"} THEN [flags EXCEPT !.chain = TRUE]
        ELSE IF upperFlag \in {"PT", "PASSTHROUGH"} THEN [flags EXCEPT !.passthrough = TRUE]
        ELSE IF upperFlag \in {"P", "PROXY"} THEN [flags EXCEPT !.proxy = TRUE]
        ELSE flags

\* for (const part of parts) { ... }
RECURSIVE RuleFlagLoop(_, _, _)
RuleFlagLoop(flags, parts, k) ==
    IF k > Len(parts) THEN flags ELSE RuleFlagLoop(RuleFlagStep(flags, parts[k]), parts, k + 1)

parseRuleFlags(flagsStr) ==
    IF flagsStr = "" THEN defaultRuleFlags
    ELSE LET cleaned == StripBrackets(flagsStr)
         IN  IF cleaned = "" THEN defaultRuleFlags
             ELSE RuleFlagLoop(defaultRuleFlags, Split(cleaned, ","), 1)

parseRewriteRule(rawLine, lineNo, args) ==
    LET parts == splitRuleArgs(args) IN
    IF Len(parts) < 2
    THEN ParseErrorNode(rawLine, lineNo, "RewriteRule requires Pattern and Substitution")
    ELSE LET flagsStr == IF Len(parts) > 2 THEN parts[3] ELSE ""
         IN  [kind |-> "RewriteRule", sourceLineNo |-> lineNo, rawLine |-> rawLine,
              pattern |-> parts[1], substitution |-> parts[2],
              flags |-> parseRuleFlags(flagsStr)]

\* the length of the leading run of non-space characters: (\S+)
RECURSIVE NonSpaceRun(_, _)
NonSpaceRun(s, k) ==
    IF k <= Len(s) /\ ~IsSpace(Ch(s, k)) THEN NonSpaceRun(s, k + 1) ELSE k - 1

\* trimmed.match(/^(\S+)\s*(.*)?$/): "." matches no line terminator, so the
\* match fails when one is left after the directive name's whitespace
parseDirective(rawLine, lineNo, trimmed) ==
    LET n             == NonSpaceRun(trimmed, 1)
        directiveName == SubSeq(trimmed, 1, n)
        argsStr       == TrimStart(From(trimmed, n + 1))
        directive     == ToLower(directiveName)
        args          == Trim(argsStr)
    IN  IF Includes(argsStr, "\r") \/ Includes(argsStr, "\n")
            THEN ParseErrorNode(rawLine, lineNo, "Invalid syntax")
        ELSE IF directive = "rewriteengine" THEN parseRewriteEngine(rawLine, lineNo, args)
        ELSE IF directive = "rewritebase" THEN parseRewriteBase(rawLine, lineNo, args)
        ELSE IF directive = "rewritecond" THEN parseRewriteCond(rawLine, lineNo, args)
        ELSE IF directive = "rewriterule" THEN parseRewriteRule(rawLine, lineNo, args)
        ELSE [kind |-> "Unknown", sourceLineNo |-> lineNo, rawLine |-> rawLine,
              directive |-> directiveName, args |-> args]

parseLine(rawLine, lineNo) ==
    LET trimmed == Trim(rawLine) IN
    IF trimmed = ""
        THEN [kind |-> "BlankLine", sourceLineNo |-> lineNo, rawLine |-> rawLine]
    ELSE IF StartsWith(trimmed, "#")
        THEN [kind |-> "Comment", sourceLineNo |-> lineNo, rawLine |-> rawLine,
              text |-> Trim(From(trimmed, 2))]
    ELSE parseDirective(rawLine, lineNo, trimmed)

\* SplitLines that leaves the carriage return of a \r\n ending on the line
SplitLinesOnLf(content) == Split(content, "\n")

\* content.split(/\r?\n/)
SplitLines(content) ==
    LET breaks   == {k \in 1..Len(content) : Ch(content, k) = "\n"}
        break(j) == IF j = 0 THEN 0
                    ELSE IF j > Cardinality(breaks) THEN Len(content) + 1
                    ELSE CHOOSE k \in breaks : Cardinality({m \in breaks : m < k}) = j - 1
        piece(j) == SubSeq(content, break(j - 1) + 1, break(j) - 1)
    IN  [j \in 1..(Cardinality(breaks) + 1) |->
            IF j <= Cardinality(breaks) /\ EndsWith(piece(j), "\r")
            THEN SubSeq(piece(j), 1, Len(piece(j)) - 1) ELSE piece(j)]

\* ------------------------------------------------------------------------
\* The lines and URLs the inputs are drawn from
\* ------------------------------------------------------------------------

ServerVariables == [HTTP_HOST |-> "h.c"]

\* the lines of the control-flow inputs: every kind of node, a rule for each
\* stopping flag, a rule that matches without stopping, one that does not
\* match, one whose pattern does not compile
CoreLines ==
    {"",
     "# c",
     "RewriteEngine On",
     "RewriteEngine Off",
     "RewriteBase /s",
     "RewriteCond %{HTTP_HOST} ^h [OR]",
     "RewriteCond %{HTTP_HOST} ^w",
     "RewriteRule ^a$ /b [L]",
     "RewriteRule ^a$ /b [R]",
     "RewriteRule ^a$ - [F]",
     "RewriteRule ^a$ - [G]",
     "RewriteRule ^a$ /b [END]",
     "RewriteRule ^a$ -",
     "RewriteRule ^o$ /c",
     "RewriteRule ( /x",
     "Options x",
     "RewriteRule x"}

\* the lines of the pattern inputs: every kind of node, and patterns the
\* safety layer classifies (nested quantifiers, PCRE-only tokens)
PatternLines ==
    {"",
     "# c",
     "RewriteEngine On",
     "RewriteEngine Off",
     "RewriteBase /s",
     "RewriteCond %{HTTP_HOST} ^h",
     "RewriteCond %{HTTP_HOST} (?R)",
     "RewriteRule ^a$ /b [L]",
     "RewriteRule ^(a+)+$ /boom",
     "RewriteRule ^a|b\\K /k",
     "RewriteRule (?R) /r",
     "Options x",
     "RewriteRule x"}

\* the lines of the flag inputs: every kind of node, and matching rules with
\* each stopping flag, with two of them, with a flag that does not stop and
\* with none
FlagLines ==
    {"",
     "# c",
     "RewriteEngine On",
     "RewriteEngine Off",
     "RewriteBase /s",
     "RewriteCond %{HTTP_HOST} ^h",
     "RewriteRule ^a$ /b [R]",
     "RewriteRule ^a$ /b [R=301,L]",
     "RewriteRule ^a$ - [R=301,G]",
     "RewriteRule ^a$ - [F]",
     "RewriteRule ^a$ - [G]",
     "RewriteRule ^a$ - [L]",
     "RewriteRule ^a$ - [END]",
     "RewriteRule ^a$ - [NC]",
     "RewriteRule ^a$ -",
     "Options x",
     "RewriteRule x"}

\* the condition lines of the condition-group inputs: a pattern that matches
\* the host and one that does not, plain and negated, with and without [OR]
CondLines ==
    {"RewriteCond %{HTTP_HOST} ^h",
     "RewriteCond %{HTTP_HOST} ^h [OR]",
     "RewriteCond %{HTTP_HOST} !^h",
     "RewriteCond %{HTTP_HOST} !^h [OR]",
     "RewriteCond %{HTTP_HOST} ^w",
     "RewriteCond %{HTTP_HOST} ^w [OR]",
     "RewriteCond %{HTTP_HOST} !^w",
     "RewriteCond %{HTTP_HOST} !^w [OR]"}

\* the condition lines of the group inputs: met and unmet, with and without
\* [OR], with and without a capture group
GroupCondLines ==
    {"RewriteCond %{HTTP_HOST} ^h",
     "RewriteCond %{HTTP_HOST} ^h [OR]",
     "RewriteCond %{HTTP_HOST} ^w",
     "RewriteCond %{HTTP_HOST} ^w [OR]",
     "RewriteCond %{HTTP_HOST} ^(h)",
     "RewriteCond %{HTTP_HOST} ^(h) [OR]",
     "RewriteCond %{HTTP_HOST} ^(.*)$"}

\* what precedes the group: the engine on, the engine off, a rule with L
\* that matched, a satisfied group with captures before a rule that does not
\* match
GroupHeads ==
    {<<"RewriteEngine On">>,
     <<>>,
     <<"RewriteEngine On", "RewriteRule ^a$ - [L]">>,
     <<"RewriteEngine On", "RewriteCond %{HTTP_HOST} ^(.*)$", "RewriteRule ^o$ /c">>,
     <<"RewriteEngine On", "RewriteCond %{HTTP_HOST} ^(.*)$", "RewriteRule ( /x">>}

\* what may stand between the group and its rule
GroupSeparators == {<<>>, <<"RewriteEngine Off">>, <<"# c">>}

\* rule lines with a flag that only the parser looks at, each with the line
\* that differs from it in the absence of that flag only
InertFlagPairs ==
    {<<"RewriteRule ^a$ /b [N]", "RewriteRule ^a$ /b">>,
     <<"RewriteRule ^a$ /b [L,S=1]", "RewriteRule ^a$ /b [L]">>,
     <<"RewriteRule ^a$ /b [C]", "RewriteRule ^a$ /b">>,
     <<"RewriteRule ^a$ /b [R=301,PT]", "RewriteRule ^a$ /b [R=301]">>,
     <<"RewriteRule ^a$ /b [P]", "RewriteRule ^a$ /b">>,
     <<"RewriteRule ^a$ /b [T=text/html]", "RewriteRule ^a$ /b">>,
     <<"RewriteRule ^a$ b?x=1 [E=a:b,QSA]", "RewriteRule ^a$ b?x=1 [QSA]">>,
     <<"RewriteRule ^a$ /b [CO=x:y]", "RewriteRule ^a$ /b">>,
     <<"RewriteRule ^a$ - [NE,F]", "RewriteRule ^a$ - [F]">>,
     <<"RewriteRule ^o$ /c [NEXT,CHAIN,SKIP=2]", "RewriteRule ^o$ /c">>}

\* the lines of the inert-flag inputs: the flagged rule lines and the other
\* kinds of node
InertFlagLines ==
    {p[1] : p \in InertFlagPairs}
        \cup {"", "# c", "RewriteBase /s", "RewriteCond %{HTTP_HOST} ^h", "Options x",
              "RewriteRule x"}

\* the line that may follow the rule of a condition-group input
CondTails ==
    {<<>>, <<"">>, <<"# c">>, <<"RewriteBase /s">>, <<"Options x">>, <<"RewriteRule x">>}

\* the lines of the arbitrary inputs: every kind of node, a rule whose pattern
\* does not compile and a matching rule with the N flag
AnyLines ==
    {"",
     "# c",
     "RewriteEngine On",
     "RewriteBase /s",
     "RewriteCond %{HTTP_HOST} ^h",
     "RewriteRule ^a$ a [N]",
     "RewriteRule ( /x",
     "Options x",
     "RewriteRule x"}

\* a URL, a string that is none, and one that new URL rejects
AnyUrls == {"http://h.c/a", "x", "http://h c/a"}

\* serverVariables with and without the variable the conditions read
AnyServerVariables == {ServerVariables, <<>>}

\* the lines of the parser inputs: every directive in its own and in another
\* letter case, well formed and ill formed, with leading and trailing
\* whitespace, and a line with a carriage return inside
ParseLines ==
    {"",
     "  # c",
     "rewriteengine ON",
     "RewriteEngine Off  ",
     "RewriteEngine maybe",
     "RewriteEngine",
     "RewriteBase",
     "\tREWRITEBASE /s",
     "RewriteCond x",
     "rewritecond %{HTTP_HOST} ^h",
     "RewriteRule x",
     "REWRITERULE ^a$ /b",
     "Options x",
     "options",
     "Options x\ry"}

\* the line endings parse splits on
LineEndings == {"\n", "\r\n"}

\* the substitutions of the query-string inputs: relative and absolute, with
\* and without a query string
QuerySubstitutions == {"b", "b?x=1", "http://x.y/p", "http://x.y/p?n=1"}

\* the flags of the query-string inputs
QueryFlags == {"", " [QSA]", " [QSD]", " [QSA,QSD]"}

\* the lines of the query-string inputs: a rule that matches every path, with
\* each substitution and each combination of QSA and QSD, and the other
\* kinds of node
QueryLines ==
    {"RewriteRule ^(.*)$ " \o s \o f : s \in QuerySubstitutions, f \in QueryFlags}
        \cup {"", "# c", "RewriteBase /s", "RewriteCond %{HTTP_HOST} ^h", "Options x",
              "RewriteRule x"}

\* the lines of the RewriteBase inputs: the engine switched on and off, a
\* base without and with a trailing slash and the root, a rule that matches
\* every path with a substitution without and with a leading slash, and the
\* other kinds of node
BaseLines ==
    {"RewriteEngine On", "RewriteEngine Off",
     "RewriteBase /s", "RewriteBase /t/", "RewriteBase /",
     "RewriteRule ^(.*)$ b", "RewriteRule ^(.*)$ /b", "RewriteRule ^(.*)$ b?x=1",
     "", "# c", "RewriteCond %{HTTP_HOST} ^h", "Options x", "RewriteRule x"}

\* the lines of the environment inputs: conditions on a variable the caller
\* supplies, on the two the engine computes, on a name env does not hold and
\* on one every object inherits, a rule that rewrites path and query, and
\* the other kinds of node
EnvLines ==
    {"RewriteCond %{HTTP_HOST} ^h",
     "RewriteCond %{REQUEST_URI} ^/a",
     "RewriteCond %{QUERY_STRING} ^q",
     "RewriteCond %{X} ^$",
     "RewriteCond %{constructor} ^$",
     "RewriteRule ^a$ /b?n=1",
     "RewriteRule ^(.*)$ /c",
     "", "# c", "RewriteBase /s", "Options x", "RewriteRule x"}

\* serverVariables that supply the two names the engine computes
CallerRequestVariables == [REQUEST_URI |-> "/z", QUERY_STRING |-> "z"]

InputLines ==
    CoreLines \cup PatternLines \cup FlagLines \cup CondLines \cup AnyLines \cup ParseLines
        \cup GroupCondLines \cup InertFlagLines \cup {p[2] : p \in InertFlagPairs}
        \cup QueryLines \cup BaseLines \cup EnvLines

\* parseLine of every input line, evaluated once
ParsedInputLines == {parseLine(l, 0) : l \in InputLines}

\* parseLine(rawLine, lineNo), read from ParsedInputLines when the line is an
\* input line: parseLine uses lineNo for sourceLineNo only
parseLineOnce(rawLine, lineNo) ==
    IF rawLine \in InputLines
    THEN [(CHOOSE n \in ParsedInputLines : n.rawLine = rawLine) EXCEPT !.sourceLineNo = lineNo]
    ELSE parseLine(rawLine, lineNo)

\* the nodes of parse, lines being content.split(/\r?\n/)
parseLines(lines) == [nodes |-> [k \in 1..Len(lines) |-> parseLineOnce(lines[k], k)]]

parse(content) == parseLines(SplitLines(content))

\* ------------------------------------------------------------------------
\* The platform's URL and RegExp, as far as the evaluator relies on them
\* ------------------------------------------------------------------------

\* the smallest positive of the positions (0 = absent), 0 when all are absent
FirstOf(S) ==
    LET hits == S \ {0}
    IN  IF hits = {} THEN 0 ELSE CHOOSE k \in hits : \A j \in hits : k <= j

\* the part of s before position k (all of s when k = 0), and from k on
Before(s, k) == IF k = 0 THEN s ELSE SubSeq(s, 1, k - 1)

After(s, k) == IF k = 0 THEN "" ELSE From(s, k)

SchemeOf(url) ==
    IF StartsWith(url, "https://") THEN "https"
    ELSE IF StartsWith(url, "http://") THEN "http" ELSE ""

\* the URL record of scheme://host followed by tail (a path, a query)
JsUrlRecord(scheme, host, tail, queryAt) ==
    IF scheme = "" \/ host = "" \/ Includes(host, " ") THEN Null
    ELSE Some([protocol |-> scheme \o ":",
               host     |-> host,
               pathname |-> IF Before(tail, queryAt) = "" THEN "/" ELSE Before(tail, queryAt),
               search   |-> IF After(tail, queryAt) = "?" THEN "" ELSE After(tail, queryAt)])

JsUrlTail(scheme, host, tail) == JsUrlRecord(scheme, host, tail, IndexOf(tail, "?"))

JsUrlSplit(scheme, rest, hostEnd) ==
    JsUrlTail(scheme, Before(rest, hostEnd),
              Before(After(rest, hostEnd), IndexOf(After(rest, hostEnd), "#")))

JsUrlRest(scheme, rest) ==
    JsUrlSplit(scheme, rest,
               FirstOf({IndexOf(rest, "/"), IndexOf(rest, "?"), IndexOf(rest, "#")}))

\* new URL(url) for the http(s) URLs and scheme-less strings of the inputs:
\* Null when it throws (no scheme, empty host, a space in the host).  The
\* pathname of a URL without a path is "/", the search of a URL whose query
\* is empty is "", and the fragment belongs to neither.
JsUrlOf(scheme, url) == JsUrlRest(scheme, From(url, Len(scheme) + 4))

JsUrl(url) == JsUrlOf(SchemeOf(url), url)

\* new RegExp(pattern, flags) throws a SyntaxError for these patterns of the
\* inputs (an unterminated group, a group opener that only PCRE knows)
JsRegExpThrows(pattern) == pattern \in {"(", "(?R)"}

RECURSIVE AllChars(_, _)
AllChars(s, c) == s = "" \/ (Ch(s, 1) = c /\ AllChars(From(s, 2), c))

\* the match array <<whole match, group 1, ...>> of a successful match
MatchIf(cond, array) == IF cond THEN Some(array) ELSE Null

\* subject.match(regex) for the patterns of the inputs; f is the subject as
\* the comparison sees it (lower-cased under the i flag).  "\K" is an
\* identity escape to the platform: it matches the letter K.
JsMatchFolded(p, nocase, subject, f) ==
    CASE p = "^a$" -> MatchIf(f = "a", <<subject>>)
      [] p = "^o$" -> MatchIf(f = "o", <<subject>>)
      [] p = "^(a+)+$" -> MatchIf(f /= "" /\ AllChars(f, "a"), <<subject, subject>>)
      [] p = "^(.*)$" ->
            MatchIf(~Includes(subject, "\n") /\ ~Includes(subject, "\r"), <<subject, subject>>)
      [] p = "^a|b\\K" ->
            IF StartsWith(f, "a") THEN Some(<<SubSeq(subject, 1, 1)>>)
            ELSE MatchIf(Includes(f, IF nocase THEN "bk" ELSE "bK"),
                         <<SubSeq(subject, IndexOf(f, IF nocase THEN "bk" ELSE "bK"),
                                  IndexOf(f, IF nocase THEN "bk" ELSE "bK") + 1)>>)
      [] p = "^h" -> MatchIf(StartsWith(f, "h"), <<SubSeq(subject, 1, 1)>>)
      [] p = "^w" -> MatchIf(StartsWith(f, "w"), <<SubSeq(subject, 1, 1)>>)
      [] p = "^q" -> MatchIf(StartsWith(f, "q"), <<SubSeq(subject, 1, 1)>>)
      [] p = "^/a" -> MatchIf(StartsWith(f, "/a"), <<SubSeq(subject, 1, 2)>>)
      [] p = "^$" -> MatchIf(f = "", <<"">>)
      [] p = "^(h)" ->
            MatchIf(StartsWith(f, "h"), <<SubSeq(subject, 1, 1), SubSeq(subject, 1, 1)>>)
      [] OTHER -> Null

JsMatch(regex, subject) ==
    JsMatchFolded(regex.source, regex.nocase, subject,
                  IF regex.nocase THEN ToLower(subject) ELSE subject)

\* ------------------------------------------------------------------------
\* Regex safety layer (engine/regex-safety.ts)
\* ------------------------------------------------------------------------

\* /\([^)]*[+*][^)]*\)[+*]/.test(pattern): a "(", then characters other than
\* ")" among which a quantifier, then ")" followed by a quantifier
NestedQuantifiers(pattern) ==
    \E open \in 1..Len(pattern) : \E close \in (open + 1)..(Len(pattern) - 1) :
        /\ Ch(pattern, open) = "("
        /\ Ch(pattern, close) = ")"
        /\ \A k \in (open + 1)..(close - 1) : Ch(pattern, k) /= ")"
        /\ \E k \in (open + 1)..(close - 1) : Ch(pattern, k) \in {"+", "*"}
        /\ Ch(pattern, close + 1) \in {"+", "*"}

\* /\([^)]*\|[^)]*\)[+*]{2,}/.test(pattern)
OverlappingAlternatives(pattern) ==
    \E open \in 1..Len(pattern) : \E close \in (open + 1)..(Len(pattern) - 2) :
        /\ Ch(pattern, open) = "("
        /\ Ch(pattern, close) = ")"
        /\ \A k \in (open + 1)..(close - 1) : Ch(pattern, k) /= ")"
        /\ \E k \in (open + 1)..(close - 1) : Ch(pattern, k) = "|"
        /\ Ch(pattern, close + 1) \in {"+", "*"}
        /\ Ch(pattern, close + 2) \in {"+", "*"}

\* the "too long" reason is given without the two lengths the source puts in it
checkPatternSafety(pattern, cfg) ==
    IF Len(pattern) > cfg.maxRegexSubjectLength
        THEN [safe |-> FALSE, reason |-> Some("Pattern too long")]
    ELSE IF NestedQuantifiers(pattern)
        THEN [safe |-> FALSE,
              reason |-> Some("Potentially dangerous nested quantifiers detected")]
    ELSE IF OverlappingAlternatives(pattern)
        THEN [safe |-> FALSE,
              reason |-> Some("Potentially dangerous overlapping alternatives detected")]
    ELSE [safe |-> TRUE, reason |-> Null]

UNSUPPORTED_PCRE_FEATURES == <<"(?R)", "(?P>", "(?(DEFINE)", "(?&", "(*", "\\K", "(?|">>

checkPcreCompatibility(pattern) ==
    LET hits == {k \in 1..Len(UNSUPPORTED_PCRE_FEATURES) :
                    Includes(pattern, UNSUPPORTED_PCRE_FEATURES[k])}
    IN  IF hits = {} THEN [safe |-> TRUE, reason |-> Null]
        ELSE [safe |-> FALSE,
              reason |-> Some("Unsupported PCRE feature: " \o
                  UNSUPPORTED_PCRE_FEATURES[CHOOSE k \in hits : \A j \in hits : k <= j])]

checkSubjectSafety(subject, cfg) ==
    IF Len(subject) > cfg.maxRegexSubjectLength
    THEN [safe |-> FALSE, reason |-> Some("Subject too long")]
    ELSE [safe |-> TRUE, reason |-> Null]

\* safeMatch(pattern, subject, config): null for a subject over the cap
safeMatch(regex, subject, cfg) ==
    IF ~checkSubjectSafety(subject, cfg).safe THEN Null ELSE JsMatch(regex, subject)

\* ------------------------------------------------------------------------
\* Evaluator (engine/evaluator.ts)
\* ------------------------------------------------------------------------

\* s.replace(/^X/, '') for a one-character X
StripLeading(s, c) == IF StartsWith(s, c) THEN From(s, 2) ELSE s

\* the groups of /^(https?):\/\/([^\/]+)(\/[^?]*)?(\?.*)?$/ on scheme://host tail
UrlFallbackGroups(url, scheme, host, tail) ==
    IF scheme = "" \/ host = "" THEN Null
    ELSE Some(<<url, scheme, host, Before(tail, IndexOf(tail, "?")),
                After(tail, IndexOf(tail, "?"))>>)

UrlFallbackRest(url, scheme, rest) ==
    UrlFallbackGroups(url, scheme, Before(rest, IndexOf(rest, "/")),
                      After(rest, IndexOf(rest, "/")))

\* url.match(...), the fallback of parseUrl
UrlFallbackMatch(url) == UrlFallbackRest(url, SchemeOf(url), From(url, Len(SchemeOf(url)) + 4))

\* the catch branch of parseUrl
parseUrlFallback(url, match) ==
    IF ~IsNull(match)
    THEN [scheme |-> Val(match)[2],
          host   |-> Val(match)[3],
          path   |-> StripLeading(IF Val(match)[4] = "" THEN "/" ELSE Val(match)[4], "/"),
          query  |-> StripLeading(Val(match)[5], "?")]
    ELSE [scheme |-> "http", host |-> "", path |-> url, query |-> ""]

\* the try branch of parseUrl: protocol.replace(':', '') and the rest
parseUrlParsed(url, parsed) ==
    IF ~IsNull(parsed)
    THEN [scheme |-> Before(Val(parsed).protocol, IndexOf(Val(parsed).protocol, ":"))
                     \o From(Val(parsed).protocol, IndexOf(Val(parsed).protocol, ":") + 1),
          host   |-> Val(parsed).host,
          path   |-> StripLeading(Val(parsed).pathname, "/"),
          query  |-> StripLeading(Val(parsed).search, "?")]
    ELSE parseUrlFallback(url, UrlFallbackMatch(url))

parseUrl(url) == parseUrlParsed(url, JsUrl(url))

buildUrl(scheme, host, path, query) ==
    scheme \o "://" \o host
        \o (IF StartsWith(path, "/") THEN path ELSE "/" \o path)
        \o (IF query /= "" THEN "?" \o query ELSE "")

\* the state initState returns, u being parseUrl(input.url)
initStateOf(in, u) ==
    [inputUrl      |-> in.url,
     currentPath   |-> u.path,
     queryString   |-> u.query,
     scheme        |-> u.scheme,
     host          |-> u.host,
     env           |-> [n \in DOMAIN in.serverVariables \cup {"REQUEST_URI", "QUERY_STRING"} |->
                          IF n = "REQUEST_URI"
                              THEN "/" \o u.path \o (IF u.query /= "" THEN "?" \o u.query ELSE "")
                          ELSE IF n = "QUERY_STRING" THEN u.query
                          ELSE in.serverVariables[n]],
     ruleCaptures  |-> <<>>,
     condCaptures  |-> <<>>,
     stopped       |-> FALSE,
     hardStop      |-> FALSE,
     redirect      |-> Null,
     iterations    |-> 0,
     rewriteBase   |-> "/",
     engineEnabled |-> FALSE]

initState(in) == initStateOf(in, parseUrl(in.url))

\* the properties an object literal inherits from Object.prototype, of which
\* the inputs name constructor; a function put into a string reads as its source
JsObjectPrototype == [constructor |-> "function Object() { [native code] }"]

\* obj[name] ?? '' for an object literal: an own property, else an inherited
\* one, else undefined
JsGet(obj, name) ==
    IF name \in DOMAIN obj THEN obj[name]
    ELSE IF name \in DOMAIN JsObjectPrototype THEN JsObjectPrototype[name]
    ELSE ""

\* result.replace(/%\{([^}]+)\}/g, (_, varName) => state.env[varName] ?? '');
\* close is the position of the first "}" at or after the third character
RECURSIVE ReplaceServerVars(_, _)
ReplaceServerVarsAt(s, env, close) ==
    IF StartsWith(s, "%{") /\ close > 1
    THEN JsGet(env, SubSeq(s, 3, close + 1))
         \o ReplaceServerVars(From(s, close + 3), env)
    ELSE Ch(s, 1) \o ReplaceServerVars(From(s, 2), env)

ReplaceServerVars(s, env) ==
    IF s = "" THEN "" ELSE ReplaceServerVarsAt(s, env, IndexOf(From(s, 3), "}"))

\* result.replace(/X([d-9])/g, (_, num) => values[parseInt(num) - 1 + offset] ?? '')
\* for the sigil X and the lowest digit d; values is 1-based here
RECURSIVE ReplaceBackrefs(_, _, _, _, _)
ReplaceBackrefs(s, sigil, lowest, values, offset) ==
    IF s = "" THEN ""
    ELSE IF Len(s) >= 2 /\ Ch(s, 1) = sigil /\ IsDigit(Ch(s, 2))
            /\ DigitsValue(Ch(s, 2), 0) >= lowest
         THEN (IF DigitsValue(Ch(s, 2), 0) + offset \in 1..Len(values)
               THEN values[DigitsValue(Ch(s, 2), 0) + offset] ELSE "")
              \o ReplaceBackrefs(From(s, 3), sigil, lowest, values, offset)
         ELSE Ch(s, 1) \o ReplaceBackrefs(From(s, 2), sigil, lowest, values, offset)

resolveVariables(template, st) ==
    ReplaceBackrefs(
        ReplaceBackrefs(ReplaceServerVars(template, st.env), "$", 1, st.ruleCaptures, 0),
        "%", 1, st.condCaptures, 0)

createRegex(pattern, nocase) ==
    IF JsRegExpThrows(pattern) THEN Null
    ELSE Some([source |-> pattern, nocase |-> nocase])

\* the result of evaluateCond once testString.match(regex) is known
evaluateCondMatch(cond, match) ==
    [met      |-> IF cond.isNegated THEN IsNull(match) ELSE ~IsNull(match),
     captures |-> IF ~IsNull(match) THEN Tail(Val(match)) ELSE <<>>]

evaluateCondRegex(cond, testString, regex) ==
    IF IsNull(regex) THEN [met |-> FALSE, captures |-> <<>>]
    ELSE evaluateCondMatch(cond, JsMatch(Val(regex), testString))

evaluateCond(cond, st) ==
    evaluateCondRegex(cond, resolveVariables(cond.testString, st),
                      createRegex(cond.condPattern, cond.flags.nocase))

\* the for loop of evaluateConditionGroup, from index k on
RECURSIVE ConditionGroupLoop(_, _, _, _, _, _, _)
\* the part of the loop body after "const result = evaluateCond(cond, state)"
\* ConditionGroupStep that leaves the last member of an OR chain out of the OR
ConditionGroupStepLastLeftOut(conditions, k, st, lastCaptures, groupResult, orResult, inOrChain, result) ==
    LET caps == IF result.met /\ Len(result.captures) > 0
                THEN result.captures ELSE lastCaptures
    IN  IF conditions[k].flags.ornext
        THEN ConditionGroupLoop(conditions, k + 1, st, caps,
                                groupResult, orResult \/ result.met, TRUE)
        ELSE IF inOrChain
        THEN ConditionGroupLoop(conditions, k + 1, st, caps,
                                groupResult /\ orResult, FALSE, FALSE)
        ELSE ConditionGroupLoop(conditions, k + 1, st, caps,
                                groupResult /\ result.met, orResult, inOrChain)

ConditionGroupStep(conditions, k, st, lastCaptures, groupResult, orResult, inOrChain, result) ==
    LET caps == IF result.met /\ Len(result.captures) > 0
                THEN result.captures ELSE lastCaptures
    IN  IF conditions[k].flags.ornext
        THEN ConditionGroupLoop(conditions, k + 1, st, caps,
                                groupResult, orResult \/ result.met, TRUE)
        ELSE IF inOrChain
        THEN ConditionGroupLoop(conditions, k + 1, st, caps,
                                groupResult /\ (orResult \/ result.met), FALSE, FALSE)
        ELSE ConditionGroupLoop(conditions, k + 1, st, caps,
                                groupResult /\ result.met, orResult, inOrChain)

ConditionGroupLoop(conditions, k, st, lastCaptures, groupResult, orResult, inOrChain) ==
    IF k > Len(conditions)
    THEN [met      |-> IF inOrChain THEN groupResult /\ orResult ELSE groupResult,
          captures |-> lastCaptures]
    ELSE IF inOrChain /\ orResult
         THEN IF ~conditions[k].flags.ornext
              THEN ConditionGroupLoop(conditions, k + 1, st, lastCaptures,
                                      groupResult /\ orResult, FALSE, FALSE)
              ELSE ConditionGroupLoop(conditions, k + 1, st, lastCaptures,
                                      groupResult, orResult, inOrChain)
         ELSE ConditionGroupStep(conditions, k, st, lastCaptures, groupResult, orResult,
                                 inOrChain, evaluateCond(conditions[k], st))

\* evaluateConditionGroup that decides on the first condition alone
evaluateConditionGroupFirstOnly(conditions, st) ==
    IF Len(conditions) = 0 THEN [met |-> TRUE, captures |-> <<>>]
    ELSE evaluateCond(conditions[1], st)

evaluateConditionGroup(conditions, st) ==
    IF Len(conditions) = 0 THEN [met |-> TRUE, captures |-> <<>>]
    ELSE ConditionGroupLoop(conditions, 1, st, <<>>, TRUE, FALSE, FALSE)

\* the query-string handling of an absolute substitution
AbsoluteQuery(rule, st, query) ==
    IF rule.flags.qsdiscard THEN query
    ELSE IF rule.flags.qsappend /\ st.queryString /= ""
        THEN (IF query /= "" THEN query \o "&" \o st.queryString ELSE st.queryString)
    ELSE query

\* RelativeQuery that appends the original query before it looks at qsdiscard
RelativeQueryAppendFirst(rule, st, newQuery) ==
    IF rule.flags.qsappend /\ st.queryString /= ""
        THEN (IF newQuery /= "" THEN newQuery \o "&" \o st.queryString ELSE st.queryString)
    ELSE IF rule.flags.qsdiscard THEN newQuery
    ELSE IF newQuery = "" THEN st.queryString
    ELSE newQuery

\* the query-string handling of a relative substitution
RelativeQuery(rule, st, newQuery) ==
    IF rule.flags.qsdiscard THEN newQuery
    ELSE IF rule.flags.qsappend /\ st.queryString /= ""
        THEN (IF newQuery /= "" THEN newQuery \o "&" \o st.queryString ELSE st.queryString)
    ELSE IF newQuery = "" /\ ~rule.flags.qsdiscard THEN st.queryString
    ELSE newQuery

\* /^https?:\/\//i.test(substitution), on the lower-cased substitution
IsAbsoluteUrl(lowered) == StartsWith(lowered, "http://") \/ StartsWith(lowered, "https://")

\* the absolute-URL branch, u being parseUrl(substitution)
AbsoluteSubstitution(rule, st, u) ==
    [state    |-> [st EXCEPT !.scheme = u.scheme, !.host = u.host],
     newPath  |-> u.path,
     newQuery |-> AbsoluteQuery(rule, st, u.query)]

\* the relative branch, queryIndex being substitution.indexOf('?') (1-based)
RelativeSubstitution(rule, st, substitution, queryIndex) ==
    [state    |-> st,
     newPath  |-> IF ~StartsWith(Before(substitution, queryIndex), "/") /\ st.rewriteBase /= "/"
                  THEN st.rewriteBase \o Before(substitution, queryIndex)
                  ELSE Before(substitution, queryIndex),
     newQuery |-> RelativeQuery(rule, st,
                      IF queryIndex /= 0 THEN From(substitution, queryIndex + 1) ELSE "")]

\* applySubstitution from the resolved substitution text on
SubstitutionResult(rule, st, substitution) ==
    IF IsAbsoluteUrl(ToLower(substitution))
    THEN AbsoluteSubstitution(rule, st, parseUrl(substitution))
    ELSE RelativeSubstitution(rule, st, substitution, IndexOf(substitution, "?"))

\* applySubstitutionFrom that takes "-" for a substitution text
applySubstitutionFromDashAsText(rule, st, match) ==
    SubstitutionResult(rule, st,
        ReplaceBackrefs(resolveVariables(rule.substitution, st), "$", 0, match, 1))

\* applySubstitution once state.ruleCaptures is stored in st
applySubstitutionFrom(rule, st, match) ==
    IF rule.substitution = "-"
    THEN [state |-> st, newPath |-> st.currentPath, newQuery |-> st.queryString]
    ELSE SubstitutionResult(rule, st,
             ReplaceBackrefs(resolveVariables(rule.substitution, st), "$", 0, match, 1))

\* returns the state as the function leaves it, with newPath and newQuery
applySubstitution(rule, st, match) ==
    applySubstitutionFrom(rule, [st EXCEPT !.ruleCaptures = Tail(match)], match)

createTraceLine(node, reached, met, valid, message) ==
    [lineNo  |-> node.sourceLineNo,
     rawLine |-> Trim(node.rawLine),
     valid   |-> valid,
     reached |-> reached,
     met     |-> met,
     message |-> message]

\* the stopping flags in the order applyRuleFlags tests them
FlagRedirect(flags, st) ==
    IF ~IsNull(flags.redirect)
    THEN [st EXCEPT !.redirect = flags.redirect, !.stopped = TRUE] ELSE st

FlagForbidden(flags, st) ==
    IF flags.forbidden THEN [st EXCEPT !.redirect = Some(403), !.stopped = TRUE] ELSE st

\* FlagGone that sets the status and does not stop
FlagGoneNoStop(flags, st) ==
    IF flags.gone THEN [st EXCEPT !.redirect = Some(410)] ELSE st

FlagGone(flags, st) ==
    IF flags.gone THEN [st EXCEPT !.redirect = Some(410), !.stopped = TRUE] ELSE st

\* FlagLast that leaves stopped alone
FlagLastNoStop(flags, st) == st

FlagLast(flags, st) == IF flags.last THEN [st EXCEPT !.stopped = TRUE] ELSE st

\* FlagEnd that also stops at the N flag
FlagEndOrNext(flags, st) ==
    IF flags.end \/ flags.next THEN [st EXCEPT !.hardStop = TRUE, !.stopped = TRUE] ELSE st

FlagEnd(flags, st) ==
    IF flags.end THEN [st EXCEPT !.hardStop = TRUE, !.stopped = TRUE] ELSE st

applyRuleFlags(flags, st) ==
    FlagEnd(flags, FlagLast(flags, FlagGone(flags, FlagForbidden(flags, FlagRedirect(flags, st)))))

\* ConditionTraceLoop that traces every condition as evaluated
ConditionTraceLoopAllReached(pending, j, st, orShortCircuited) ==
    [k \in 1..(Len(pending) - j + 1) |->
        createTraceLine(pending[j + k - 1], TRUE,
                        evaluateCond(pending[j + k - 1], st).met, TRUE, Null)]

\* the condition traces pushed while a reached rule is processed, from index j on
RECURSIVE ConditionTraceLoop(_, _, _, _)
\* ConditionTraceStep that never sets orShortCircuited
ConditionTraceStepNoShortCircuit(pending, j, st, condEval) ==
    <<createTraceLine(pending[j], TRUE, condEval.met, TRUE, Null)>>
    \o ConditionTraceLoop(pending, j + 1, st, FALSE)

\* the part of the loop body after "const condEval = evaluateCond(cond, state)"
ConditionTraceStep(pending, j, st, condEval) ==
    <<createTraceLine(pending[j], TRUE, condEval.met, TRUE, Null)>>
    \o ConditionTraceLoop(pending, j + 1, st, pending[j].flags.ornext /\ condEval.met)

ConditionTraceLoop(pending, j, st, orShortCircuited) ==
    IF j > Len(pending) THEN <<>>
    ELSE IF orShortCircuited
         THEN <<createTraceLine(pending[j], FALSE, FALSE, TRUE, Null)>>
              \o ConditionTraceLoop(pending, j + 1, st, pending[j].flags.ornext)
         ELSE ConditionTraceStep(pending, j, st, evaluateCond(pending[j], st))

\* for (const cond of pendingConditions) trace.push(createTraceLine(cond, false, false, true))
UnreachedConditions(pending) ==
    [j \in 1..Len(pending) |-> createTraceLine(pending[j], FALSE, FALSE, TRUE, Null)]

\* state.rewriteBase.replace(/^\//, '').replace(/\/$/, '')
BasePrefix(rewriteBase) ==
    IF EndsWith(StripLeading(rewriteBase, "/"), "/")
    THEN SubSeq(StripLeading(rewriteBase, "/"), 1, Len(StripLeading(rewriteBase, "/")) - 1)
    ELSE StripLeading(rewriteBase, "/")

\* the path a rule pattern is matched against: currentPath without the
\* RewriteBase prefix
MatchPathOf(currentPath, basePrefix) ==
    IF basePrefix /= "" /\ StartsWith(currentPath, basePrefix \o "/")
        THEN From(currentPath, Len(basePrefix) + 2)
    ELSE IF basePrefix /= "" /\ currentPath = basePrefix THEN ""
    ELSE currentPath

MatchPath(st) == MatchPathOf(st.currentPath, BasePrefix(st.rewriteBase))

\* a reached rule whose pattern matched: sub is the result of applySubstitution
RuleMatched(node, sub) ==
    applyRuleFlags(node.flags,
        [sub.state EXCEPT !.currentPath = sub.newPath, !.queryString = sub.newQuery])

\* RuleWithMatch that stops the evaluation at a rule that does not match
RuleWithMatchStops(node, st, condLines, match) ==
    IF IsNull(match)
    THEN [state |-> [st EXCEPT !.stopped = TRUE],
          lines |-> Append(condLines, createTraceLine(node, TRUE, FALSE, TRUE, Null))]
    ELSE [state |-> RuleMatched(node, applySubstitution(node, st, Val(match))),
          lines |-> Append(condLines, createTraceLine(node, TRUE, TRUE, TRUE, Null))]

\* a reached rule once matchPath.match(regex) is known
RuleWithMatch(node, st, condLines, match) ==
    IF IsNull(match)
    THEN [state |-> st,
          lines |-> Append(condLines, createTraceLine(node, TRUE, FALSE, TRUE, Null))]
    ELSE [state |-> RuleMatched(node, applySubstitution(node, st, Val(match))),
          lines |-> Append(condLines, createTraceLine(node, TRUE, TRUE, TRUE, Null))]

\* RuleWithRegex that reports a pattern that does not compile as met
RuleWithRegexMet(node, st, condLines, regex) ==
    IF IsNull(regex)
    THEN [state |-> st,
          lines |-> Append(condLines, createTraceLine(node, TRUE, TRUE, FALSE,
                                          Some("Invalid regex pattern")))]
    ELSE RuleWithMatch(node, st, condLines, JsMatch(Val(regex), MatchPath(st)))

\* a reached rule whose conditions are met, regex being createRegex(...)
RuleWithRegex(node, st, condLines, regex) ==
    IF IsNull(regex)
    THEN [state |-> st,
          lines |-> Append(condLines, createTraceLine(node, TRUE, FALSE, FALSE,
                                          Some("Invalid regex pattern")))]
    ELSE RuleWithMatch(node, st, condLines, JsMatch(Val(regex), MatchPath(st)))

\* a reached rule once its conditions are evaluated and traced
RuleAfterConditions(node, st, condResult, condLines) ==
    IF ~condResult.met
    THEN [state |-> IF condResult.met /\ Len(condResult.captures) > 0
                    THEN [st EXCEPT !.condCaptures = condResult.captures] ELSE st,
          lines |-> Append(condLines, createTraceLine(node, FALSE, FALSE, TRUE, Null))]
    ELSE RuleWithRegex(node,
                       IF condResult.met /\ Len(condResult.captures) > 0
                       THEN [st EXCEPT !.condCaptures = condResult.captures] ELSE st,
                       condLines, createRegex(node.pattern, node.flags.nocase))

\* the branch of a rule with the engine on and not stopped, st carrying the
\* incremented iterations: the state it leaves and the trace lines it pushes
ReachedRuleFrom(node, st, pending) ==
    RuleAfterConditions(node, st, evaluateConditionGroup(pending, st),
                        ConditionTraceLoop(pending, 1, st, FALSE))

ReachedRule(node, st, pending) ==
    ReachedRuleFrom(node, [st EXCEPT !.iterations = @ + 1], pending)

\* the record evaluate returns
Result(st, status, tr) ==
    [finalUrl   |-> buildUrl(st.scheme, st.host, st.currentPath, st.queryString),
     status     |-> status,
     statusCode |-> st.redirect,
     trace      |-> tr]

NoOutput == [finalUrl |-> "", status |-> "", statusCode |-> Null, trace |-> <<>>]

\* the loop is at node i and the iteration limit has not fired
AtNode(kind) ==
    /\ pc = "loop"
    /\ i <= Len(doc.nodes)
    /\ ~(state.iterations > config.maxIterations)
    /\ doc.nodes[i].kind = kind

\* LimitExceeded that returns without the entries traced so far
LimitExceededDropsTrace ==
    /\ pc = "loop"
    /\ i <= Len(doc.nodes)
    /\ state.iterations > config.maxIterations
    /\ output' = Result(state, "limit-exceeded", <<>>)
    /\ pc' = "done"
    /\ UNCHANGED <<input, config, doc, i, state, pendingConditions, trace, client, panel, workspaceState>>

LimitExceeded ==
    /\ pc = "loop"
    /\ i <= Len(doc.nodes)
    /\ state.iterations > config.maxIterations
    /\ output' = Result(state, "limit-exceeded", trace)
    /\ pc' = "done"
    /\ UNCHANGED <<input, config, doc, i, state, pendingConditions, trace, client, panel, workspaceState>>

\* CaseBlankLine that starts the document over
CaseBlankLineRestarts ==
    /\ AtNode("BlankLine")
    /\ i' = 1
    /\ UNCHANGED <<input, config, doc, state, pendingConditions, trace, pc, output, client, panel, workspaceState>>

CaseBlankLine ==
    /\ AtNode("BlankLine")
    /\ i' = i + 1
    /\ UNCHANGED <<input, config, doc, state, pendingConditions, trace, pc, output, client, panel, workspaceState>>

CaseComment ==
    /\ AtNode("Comment")
    /\ trace' = Append(trace, createTraceLine(doc.nodes[i], TRUE, TRUE, TRUE, Null))
    /\ i' = i + 1
    /\ UNCHANGED <<input, config, doc, state, pendingConditions, pc, output, client, panel, workspaceState>>

\* CaseRewriteEngine that clears stopped
CaseRewriteEngineResumes ==
    /\ AtNode("RewriteEngine")
    /\ state' = [state EXCEPT !.engineEnabled = doc.nodes[i].on, !.stopped = FALSE]
    /\ trace' = Append(trace, createTraceLine(doc.nodes[i], TRUE, TRUE, TRUE, Null))
    /\ i' = i + 1
    /\ UNCHANGED <<input, config, doc, pendingConditions, pc, output, client, panel, workspaceState>>

CaseRewriteEngine ==
    /\ AtNode("RewriteEngine")
    /\ state' = [state EXCEPT !.engineEnabled = doc.nodes[i].on]
    /\ trace' = Append(trace, createTraceLine(doc.nodes[i], TRUE, TRUE, TRUE, Null))
    /\ i' = i + 1
    /\ UNCHANGED <<input, config, doc, pendingConditions, pc, output, client, panel, workspaceState>>

\* CaseRewriteBase that sets rewriteBase with the engine off too
CaseRewriteBaseEngineUnchecked ==
    /\ AtNode("RewriteBase")
    /\ trace' = Append(trace, createTraceLine(doc.nodes[i], state.engineEnabled, TRUE, TRUE, Null))
    /\ state' = [state EXCEPT !.rewriteBase =
                     IF EndsWith(doc.nodes[i].base, "/") THEN doc.nodes[i].base
                     ELSE doc.nodes[i].base \o "/"]
    /\ i' = i + 1
    /\ UNCHANGED <<input, config, doc, pendingConditions, pc, output, client, panel, workspaceState>>

CaseRewriteBase ==
    /\ AtNode("RewriteBase")
    /\ trace' = Append(trace, createTraceLine(doc.nodes[i], state.engineEnabled, TRUE, TRUE, Null))
    /\ state' = IF state.engineEnabled
                THEN [state EXCEPT !.rewriteBase =
                         IF EndsWith(doc.nodes[i].base, "/") THEN doc.nodes[i].base
                         ELSE doc.nodes[i].base \o "/"]
                ELSE state
    /\ i' = i + 1
    /\ UNCHANGED <<input, config, doc, pendingConditions, pc, output, client, panel, workspaceState>>

\* CaseRewriteCond that does not test engineEnabled
CaseRewriteCondEngineUnchecked ==
    /\ AtNode("RewriteCond")
    /\ IF state.stopped \/ state.hardStop
       THEN /\ trace' = Append(trace, createTraceLine(doc.nodes[i], FALSE, FALSE, TRUE, Null))
            /\ UNCHANGED pendingConditions
       ELSE /\ pendingConditions' = Append(pendingConditions, doc.nodes[i])
            /\ UNCHANGED trace
    /\ i' = i + 1
    /\ UNCHANGED <<input, config, doc, state, pc, output, client, panel, workspaceState>>

CaseRewriteCond ==
    /\ AtNode("RewriteCond")
    /\ IF ~state.engineEnabled \/ state.stopped \/ state.hardStop
       THEN /\ trace' = Append(trace, createTraceLine(doc.nodes[i], FALSE, FALSE, TRUE, Null))
            /\ UNCHANGED pendingConditions
       ELSE /\ pendingConditions' = Append(pendingConditions, doc.nodes[i])
            /\ UNCHANGED trace
    /\ i' = i + 1
    /\ UNCHANGED <<input, config, doc, state, pc, output, client, panel, workspaceState>>

CaseRewriteRule ==
    /\ AtNode("RewriteRule")
    /\ IF ~state.engineEnabled \/ state.stopped \/ state.hardStop
       THEN /\ trace' = Append(trace \o UnreachedConditions(pendingConditions),
                               createTraceLine(doc.nodes[i], FALSE, FALSE, TRUE, Null))
            /\ UNCHANGED state
       ELSE LET r == ReachedRule(doc.nodes[i], state, pendingConditions)
            IN  /\ trace' = trace \o r.lines
                /\ state' = r.state
    /\ pendingConditions' = <<>>
    /\ i' = i + 1
    /\ UNCHANGED <<input, config, doc, pc, output, client, panel, workspaceState>>

\* CaseUnknown that traces the directive as not reached once stopped
CaseUnknownStopped ==
    /\ AtNode("Unknown")
    /\ trace' = Append(trace, createTraceLine(doc.nodes[i],
                           state.engineEnabled /\ ~state.stopped, FALSE, TRUE,
                           Some("Unsupported directive: " \o doc.nodes[i].directive)))
    /\ i' = i + 1
    /\ UNCHANGED <<input, config, doc, state, pendingConditions, pc, output, client, panel, workspaceState>>

CaseUnknown ==
    /\ AtNode("Unknown")
    /\ trace' = Append(trace, createTraceLine(doc.nodes[i], state.engineEnabled, FALSE, TRUE,
                           Some("Unsupported directive: " \o doc.nodes[i].directive)))
    /\ i' = i + 1
    /\ UNCHANGED <<input, config, doc, state, pendingConditions, pc, output, client, panel, workspaceState>>

\* CaseParseError that ends the evaluation of the rules after it
CaseParseErrorStops ==
    /\ AtNode("ParseError")
    /\ trace' = Append(trace, createTraceLine(doc.nodes[i], TRUE, FALSE, FALSE,
                           Some(doc.nodes[i].message)))
    /\ state' = [state EXCEPT !.stopped = TRUE]
    /\ i' = i + 1
    /\ UNCHANGED <<input, config, doc, pendingConditions, pc, output, client, panel, workspaceState>>

CaseParseError ==
    /\ AtNode("ParseError")
    /\ trace' = Append(trace, createTraceLine(doc.nodes[i], TRUE, FALSE, FALSE,
                           Some(doc.nodes[i].message)))
    /\ i' = i + 1
    /\ UNCHANGED <<input, config, doc, state, pendingConditions, pc, output, client, panel, workspaceState>>

\* Return that does not look at state.redirect
ReturnAlwaysOk ==
    /\ pc = "loop"
    /\ i > Len(doc.nodes)
    /\ output' = Result(state, "ok", trace)
    /\ pc' = "done"
    /\ UNCHANGED <<input, config, doc, i, state, pendingConditions, trace, client, panel, workspaceState>>

\* the loop has run off the document: determine the final status and return
Return ==
    /\ pc = "loop"
    /\ i > Len(doc.nodes)
    /\ output' = Result(state, IF ~IsNull(state.redirect) THEN "redirect" ELSE "ok", trace)
    /\ pc' = "done"
    /\ UNCHANGED <<input, config, doc, i, state, pendingConditions, trace, client, panel, workspaceState>>

Next ==
    \/ LimitExceeded
    \/ CaseBlankLine
    \/ CaseComment
    \/ CaseRewriteEngine
    \/ CaseRewriteBase
    \/ CaseRewriteCond
    \/ CaseRewriteRule
    \/ CaseUnknown
    \/ CaseParseError
    \/ Return

\* ------------------------------------------------------------------------
\* Inputs
\* ------------------------------------------------------------------------

\* the longest rules text of the control-flow inputs, in lines
MaxLines == 3

\* the longest rules text of the pattern inputs, in lines
MaxPatternLines == 4

\* a maxIterations small enough for the limit to be exceeded
MaxIterationsSmall == 0

DefaultMaxIterations == 100

DefaultMaxUrlLength == 8192

DefaultMaxRegexSubjectLength == 2048

DefaultMaxRuleCount == 1000

\* DEFAULT_ENGINE_CONFIG
DefaultEngineConfig ==
    [maxIterations |-> DefaultMaxIterations,
     maxUrlLength |-> DefaultMaxUrlLength,
     maxRegexSubjectLength |-> DefaultMaxRegexSubjectLength,
     maxRuleCount |-> DefaultMaxRuleCount]

\* lines.join("\n")
RECURSIVE JoinLines(_)
JoinLines(lines) ==
    IF Len(lines) = 0 THEN ""
    ELSE IF Len(lines) = 1 THEN lines[1]
    ELSE lines[1] \o "\n" \o JoinLines(Tail(lines))

\* every rules text of one to maxLines lines drawn from the line set
RulesTexts(lineSet, maxLines) ==
    {JoinLines(ls) : ls \in UNION {[1..n -> lineSet] : n \in 1..maxLines}}

\* evaluate(input, config) up to the loop: initState, parse, an empty trace
InitFrom(urls, rulesTexts, maps, maxIterations) ==
    /\ input \in [url : urls, rules : rulesTexts, serverVariables : maps]
    /\ config \in {[DefaultEngineConfig EXCEPT !.maxIterations = n] : n \in maxIterations}
    /\ state = initState(input)
    /\ doc = parse(input.rules)
    /\ trace = <<>>
    /\ pendingConditions = <<>>
    /\ i = 1
    /\ pc = "loop"
    /\ output = NoOutput
    /\ ExtensionIdle

InitWith(urls, rulesTexts, maxIterations) ==
    InitFrom(urls, rulesTexts, {ServerVariables}, maxIterations)

\* control flow: one URL, the lines of CoreLines
Init ==
    InitWith({"http://h.c/a"}, RulesTexts(CoreLines, MaxLines),
             {MaxIterationsSmall, DefaultMaxIterations})

Spec == Init /\ [][Next]_vars

\* patterns and URLs: a URL with and one without a path, the lines of
\* PatternLines
InitPatterns ==
    InitWith({"http://h.c/a", "http://h.c"}, RulesTexts(PatternLines, MaxPatternLines),
             {MaxIterationsSmall, DefaultMaxIterations})

SpecPatterns == InitPatterns /\ [][Next]_vars

\* flags: one URL, the lines of FlagLines
InitFlags ==
    InitWith({"http://h.c/a"}, RulesTexts(FlagLines, MaxLines),
             {MaxIterationsSmall, DefaultMaxIterations})

SpecFlags == InitFlags /\ [][Next]_vars

\* the longest condition group of the condition-group inputs
MaxConds == 3

\* RewriteEngine On, a group of up to MaxConds conditions, a rule that
\* matches the path, and at most one more line
CondTexts ==
    {JoinLines(<<"RewriteEngine On">> \o cs \o <<"RewriteRule ^a$ /b">> \o tail) :
        cs \in UNION {[1..n -> CondLines] : n \in 0..MaxConds}, tail \in CondTails}

\* condition groups: one URL, the texts of CondTexts
InitConds ==
    InitWith({"http://h.c/a"}, CondTexts, {MaxIterationsSmall, DefaultMaxIterations})

SpecConds == InitConds /\ [][Next]_vars

\* the longest condition group of the group inputs
MaxGroupConds == 2

\* one of GroupHeads, a group of up to MaxGroupConds conditions, one of
\* GroupSeparators, a rule that matches the path, and at most one more line
GroupTexts ==
    {JoinLines(head \o cs \o sep \o <<"RewriteRule ^a$ /b">> \o tail) :
        head \in GroupHeads,
        cs \in UNION {[1..n -> GroupCondLines] : n \in 0..MaxGroupConds},
        sep \in GroupSeparators,
        tail \in CondTails}

\* the groups of a rule: one URL, the texts of GroupTexts
InitGroups ==
    InitWith({"http://h.c/a"}, GroupTexts, {MaxIterationsSmall, DefaultMaxIterations})

SpecGroups == InitGroups /\ [][Next]_vars

\* the most lines of a query-string input after its first
MaxQueryLines == 2

\* RewriteEngine On and up to MaxQueryLines lines of QueryLines
QueryTexts ==
    {JoinLines(<<"RewriteEngine On">> \o ls) :
        ls \in UNION {[1..n -> QueryLines] : n \in 0..MaxQueryLines}}

\* query strings: a URL with and one without a query string
InitQuery ==
    InitWith({"http://h.c/a", "http://h.c/a?q=1"}, QueryTexts,
             {MaxIterationsSmall, DefaultMaxIterations})

SpecQuery == InitQuery /\ [][Next]_vars

\* the longest rules text of the RewriteBase inputs, in lines
MaxBaseLines == 3

\* RewriteBase: one URL, the lines of BaseLines
InitBase ==
    InitWith({"http://h.c/a"}, RulesTexts(BaseLines, MaxBaseLines),
             {MaxIterationsSmall, DefaultMaxIterations})

SpecBase == InitBase /\ [][Next]_vars

\* the most lines of an environment input after its first
MaxEnvLines == 2

\* RewriteEngine On and up to MaxEnvLines lines of EnvLines
EnvTexts ==
    {JoinLines(<<"RewriteEngine On">> \o ls) :
        ls \in UNION {[1..n -> EnvLines] : n \in 0..MaxEnvLines}}

\* the environment: a URL with and one without a query string, serverVariables
\* with the host, empty, and with the two computed names
InitEnv ==
    InitFrom({"http://h.c/a", "http://h.c/a?q=1"}, EnvTexts,
             {ServerVariables, <<>>, CallerRequestVariables},
             {MaxIterationsSmall, DefaultMaxIterations})

SpecEnv == InitEnv /\ [][Next]_vars

\* the most lines of an inert-flag input after its first
MaxInertFlagLines == 2

\* RewriteEngine On and up to MaxInertFlagLines lines of InertFlagLines
InertFlagTexts ==
    {JoinLines(<<"RewriteEngine On">> \o ls) :
        ls \in UNION {[1..n -> InertFlagLines] : n \in 0..MaxInertFlagLines}}

InitInertFlags ==
    InitWith({"http://h.c/a", "http://h.c/a?q=1"}, InertFlagTexts,
             {MaxIterationsSmall, DefaultMaxIterations})

\* the line without its inert flag
LineWithoutInertFlags(line) ==
    IF \E p \in InertFlagPairs : p[1] = line
    THEN (CHOOSE p \in InertFlagPairs : p[1] = line)[2]
    ELSE line

\* the rules text of a document without the inert flags
RulesWithoutInertFlags(d) ==
    JoinLines([k \in 1..Len(d.nodes) |-> LineWithoutInertFlags(d.nodes[k].rawLine)])

\* the caller calls evaluate again, on the rules without the inert flags,
\* keeping the output of the first call
CallWithoutInertFlags ==
    /\ pc = "done"
    /\ RulesWithoutInertFlags(doc) /= input.rules
    /\ input' = [input EXCEPT !.rules = RulesWithoutInertFlags(doc)]
    /\ state' = initState(input')
    /\ doc' = parse(input'.rules)
    /\ trace' = <<>>
    /\ pendingConditions' = <<>>
    /\ i' = 1
    /\ pc' = "loop"
    /\ UNCHANGED <<config, output, client, panel, workspaceState>>

NextInertFlags == CallWithoutInertFlags \/ Next

SpecInertFlags == InitInertFlags /\ [][NextInertFlags]_vars

\* arbitrary inputs: the URLs of AnyUrls, the lines of AnyLines, the maps of
\* AnyServerVariables
AnyInputs == [url : AnyUrls, rules : RulesTexts(AnyLines, MaxLines),
              serverVariables : AnyServerVariables]

AnyConfigs ==
    {[DefaultEngineConfig EXCEPT !.maxIterations = n] :
        n \in {MaxIterationsSmall, DefaultMaxIterations}}

\* before the caller calls evaluate
InitAny ==
    /\ input = [url |-> "", rules |-> "", serverVariables |-> <<>>]
    /\ config = DefaultEngineConfig
    /\ state = initState(input)
    /\ doc = parse(input.rules)
    /\ trace = <<>>
    /\ pendingConditions = <<>>
    /\ i = 1
    /\ pc = "call"
    /\ output = NoOutput
    /\ ExtensionIdle

\* evaluate(input, config) is called with one of the arbitrary inputs: the
\* statements of evaluate up to the loop
Call ==
    /\ pc = "call"
    /\ input' \in AnyInputs
    /\ config' \in AnyConfigs
    /\ state' = initState(input')
    /\ doc' = parse(input'.rules)
    /\ pc' = "loop"
    /\ UNCHANGED <<trace, pendingConditions, i, output, client, panel, workspaceState>>

NextAny == Call \/ Next

\* weak fairness of CaseRewriteRule with its enabling condition written out:
\* the action's primed conjuncts are assignments, so it is enabled exactly
\* at a RewriteRule node
CaseRewriteRuleRuns ==
    []<>(~AtNode("RewriteRule")) \/ []<><<CaseRewriteRule>>_vars

\* evaluate runs to its return: the loop is a plain for loop and no callback
\* or await suspends it, so every statement that can run does run
RunsToReturn ==
    /\ WF_vars(Call)
    /\ WF_vars(LimitExceeded)
    /\ WF_vars(CaseBlankLine)
    /\ WF_vars(CaseComment)
    /\ WF_vars(CaseRewriteEngine)
    /\ WF_vars(CaseRewriteBase)
    /\ WF_vars(CaseRewriteCond)
    /\ CaseRewriteRuleRuns
    /\ WF_vars(CaseUnknown)
    /\ WF_vars(CaseParseError)
    /\ WF_vars(Return)

SpecAny == InitAny /\ [][NextAny]_vars /\ RunsToReturn

\* a maxUrlLength the input URL is longer than
MaxUrlLengthSmall == 8

\* a maxRuleCount that rules texts of two directives exceed
MaxRuleCountSmall == 1

\* a maxRegexSubjectLength the path and the host are longer than
MaxRegexSubjectLengthSmall == 0

\* configurations with and without the caps set low
CapConfigs ==
    [maxIterations : {MaxIterationsSmall, DefaultMaxIterations},
     maxUrlLength : {MaxUrlLengthSmall, DefaultMaxUrlLength},
     maxRegexSubjectLength : {MaxRegexSubjectLengthSmall, DefaultMaxRegexSubjectLength},
     maxRuleCount : {MaxRuleCountSmall, DefaultMaxRuleCount}]

\* evaluate(input, config) up to the loop, under each of CapConfigs
InitCaps ==
    /\ input \in [url : {"http://h.c/a"}, rules : RulesTexts(AnyLines, MaxLines),
                  serverVariables : {ServerVariables}]
    /\ config \in CapConfigs
    /\ state = initState(input)
    /\ doc = parse(input.rules)
    /\ trace = <<>>
    /\ pendingConditions = <<>>
    /\ i = 1
    /\ pc = "loop"
    /\ output = NoOutput
    /\ ExtensionIdle

SpecCaps == InitCaps /\ [][Next]_vars

\* the longest content of the parser inputs, in lines
MaxParseLines == 2

\* the contents of n lines, each line ending one of LineEndings
RECURSIVE EndedTexts(_, _)
EndedTexts(lineSet, n) ==
    IF n = 1 THEN lineSet
    ELSE {t \o e \o l : t \in EndedTexts(lineSet, n - 1), e \in LineEndings, l \in lineSet}

ParseTexts == UNION {EndedTexts(ParseLines, n) : n \in 1..MaxParseLines}

\* before parse(content) is called on the rules text
InitParse ==
    /\ input \in [url : {"http://h.c/a"}, rules : ParseTexts, serverVariables : {ServerVariables}]
    /\ config = DefaultEngineConfig
    /\ state = initState(input)
    /\ doc = [nodes |-> <<>>]
    /\ trace = <<>>
    /\ pendingConditions = <<>>
    /\ i = 1
    /\ pc = "call"
    /\ output = NoOutput
    /\ ExtensionIdle

\* parse(content)
ParseContent ==
    /\ pc = "call"
    /\ doc' = parse(input.rules)
    /\ pc' = "parsed"
    /\ UNCHANGED <<input, config, state, pendingConditions, trace, i, output, client, panel, workspaceState>>

SpecParse == InitParse /\ [][ParseContent]_vars

\* ------------------------------------------------------------------------
\* Properties of evaluate
\* ------------------------------------------------------------------------

\* the node a trace entry was created from
EntryNode(e) == doc.nodes[e.lineNo]

EntryKind(e) == doc.nodes[e.lineNo].kind

\* the entry of a node that was not reached: reached=false, met=false, valid=true
Unreached(e) == ~e.reached /\ ~e.met /\ e.valid

\* one of the flags for which applyRuleFlags sets stopped
StoppingFlags(flags) ==
    ~IsNull(flags.redirect) \/ flags.forbidden \/ flags.gone \/ flags.last \/ flags.end

\* the entry of a matched rule that set stopped
SetStopped(e) ==
    EntryKind(e) = "RewriteRule" /\ e.met /\ StoppingFlags(EntryNode(e).flags)

\* entry k of the trace follows the entry of a rule that set stopped
FollowsStop(tr, k) == \E j \in 1..(k - 1) : SetStopped(tr[j])

\* engineEnabled when the loop arrives at line n: the "on" of the last
\* RewriteEngine directive above it, false when there is none
EngineEnabledAt(n) ==
    \E k \in 1..(n - 1) :
        /\ doc.nodes[k].kind = "RewriteEngine"
        /\ doc.nodes[k].on
        /\ \A j \in (k + 1)..(n - 1) : doc.nodes[j].kind /= "RewriteEngine"

\* the step processes node i, a RewriteCond or a RewriteRule
CondOrRuleStep ==
    /\ pc = "loop"
    /\ i <= Len(doc.nodes)
    /\ i' = i + 1
    /\ doc.nodes[i].kind \in {"RewriteCond", "RewriteRule"}

\* the step pushes the entry of node i last, every entry it pushes is an
\* unreached one, and it leaves the evaluation state alone
TracesUnreached ==
    /\ Len(trace') > Len(trace)
    /\ SubSeq(trace', 1, Len(trace)) = trace
    /\ trace'[Len(trace')].lineNo = i
    /\ \A k \in (Len(trace) + 1)..Len(trace') : Unreached(trace'[k])
    /\ state' = state

\* C1: the number of trace entries evaluate returns equals the number of
\* non-blank lines of the rules text (doc holds one node per line, a
\* BlankLine node for a blank one), a RewriteCond that no RewriteRule follows
\* included; stated for the default maxIterations, which no input here exceeds
TraceLengthIsNonBlankLineCount ==
    (pc = "done" /\ config.maxIterations = DefaultMaxIterations)
        => Len(output.trace) =
               Cardinality({k \in 1..Len(doc.nodes) : doc.nodes[k].kind /= "BlankLine"})

\* C2: lineNo is strictly increasing along the trace evaluate returns
TraceInSourceOrder ==
    pc = "done"
        => \A k \in 1..(Len(output.trace) - 1) :
               output.trace[k].lineNo < output.trace[k + 1].lineNo

\* the first directive is RewriteEngine Off and no later one turns the engine on
EngineStaysOff ==
    \E d \in 1..Len(doc.nodes) :
        /\ \A k \in 1..(d - 1) : doc.nodes[k].kind \in {"BlankLine", "Comment"}
        /\ doc.nodes[d].kind = "RewriteEngine"
        /\ \A k \in d..Len(doc.nodes) :
               doc.nodes[k].kind = "RewriteEngine" => ~doc.nodes[k].on

\* C3: when the first directive is RewriteEngine Off and no later directive
\* turns the engine on, evaluate returns the input URL as finalUrl and no
\* statusCode, and every RewriteRule entry has reached=false
EngineOffOutputEqualsInput ==
    (pc = "done" /\ EngineStaysOff)
        => /\ output.finalUrl = input.url
           /\ IsNull(output.statusCode)
           /\ \A k \in 1..Len(output.trace) :
                  EntryKind(output.trace[k]) = "RewriteRule" => ~output.trace[k].reached

\* no RewriteRule of the returned trace matched
NoRuleMatched ==
    \A k \in 1..Len(output.trace) :
        EntryKind(output.trace[k]) = "RewriteRule" => ~output.trace[k].met

\* C4: when no RewriteRule matches (there may be none, the rules text may be
\* empty), evaluate returns the input URL as finalUrl and no statusCode
NoMatchOutputEqualsInput ==
    (pc = "done" /\ NoRuleMatched)
        => output.finalUrl = input.url /\ IsNull(output.statusCode)

\* every RewriteCond and RewriteRule entry after the entry of a rule that set
\* stopped is an unreached one
StoppedEntriesUnreached ==
    \A k \in 1..Len(trace) :
        (FollowsStop(trace, k) /\ EntryKind(trace[k]) \in {"RewriteCond", "RewriteRule"})
            => Unreached(trace[k])

\* a RewriteCond or RewriteRule processed once stopped is set is traced as
\* unreached and not evaluated
StoppedStepEvaluatesNothing ==
    (CondOrRuleStep /\ (state.stopped \/ state.hardStop)) => TracesUnreached

\* C5: once a matched rule has set stopped (flags L, R, F, G or END), every
\* RewriteCond and RewriteRule entry that follows it in the trace has
\* reached=false, met=false and valid=true, and none of those conditions or
\* rules is evaluated
StoppedSuppressesCondsAndRules ==
    []StoppedEntriesUnreached /\ [][StoppedStepEvaluatesNothing]_vars

\* a rule set stopped and the entry of a RewriteCond or RewriteRule follows it
StoppedThenCondOrRule ==
    \E k \in 1..Len(trace) :
        FollowsStop(trace, k) /\ EntryKind(trace[k]) \in {"RewriteCond", "RewriteRule"}

EngineOffStep == (CondOrRuleStep /\ ~state.engineEnabled) => TracesUnreached

\* C7: every RewriteCond or RewriteRule encountered while engineEnabled is
\* false is traced with reached=false, met=false, valid=true and changes no
\* evaluation state
EngineOffCondRuleUnreached == [][EngineOffStep]_vars

\* the entry of a RewriteCond or RewriteRule encountered with the engine off
EngineOffCondOrRuleTraced ==
    \E k \in 1..Len(trace) :
        /\ EntryKind(trace[k]) \in {"RewriteCond", "RewriteRule"}
        /\ ~EngineEnabledAt(trace[k].lineNo)
        /\ Unreached(trace[k])

\* C8: every trace entry satisfies valid=false implies met=false
InvalidImpliesNotMet ==
    /\ \A k \in 1..Len(trace) : ~trace[k].valid => ~trace[k].met
    /\ \A k \in 1..Len(output.trace) : ~output.trace[k].valid => ~output.trace[k].met

\* entries with valid=false: one of a rule whose pattern does not compile, one
\* of a line that does not parse
InvalidEntriesTraced ==
    /\ \E k \in 1..Len(output.trace) :
           ~output.trace[k].valid /\ EntryKind(output.trace[k]) = "RewriteRule"
    /\ \E k \in 1..Len(output.trace) :
           ~output.trace[k].valid /\ EntryKind(output.trace[k]) = "ParseError"

\* C9: a reached RewriteRule whose pattern checkPatternSafety classifies as
\* unsafe is traced valid=false, met=false with a message
UnsafePatternRejected ==
    \A k \in 1..Len(trace) :
        (/\ EntryKind(trace[k]) = "RewriteRule"
         /\ trace[k].reached
         /\ ~checkPatternSafety(EntryNode(trace[k]).pattern, config).safe)
            => ~trace[k].valid /\ ~trace[k].met /\ ~IsNull(trace[k].message)

\* the pattern of a RewriteCond or RewriteRule node
PatternOf(node) == IF node.kind = "RewriteRule" THEN node.pattern ELSE node.condPattern

\* C10: a reached rule or condition whose pattern contains a PCRE-only token
\* is traced valid=false, met=false with a message
PcreOnlyPatternRejected ==
    \A k \in 1..Len(trace) :
        (/\ EntryKind(trace[k]) \in {"RewriteCond", "RewriteRule"}
         /\ trace[k].reached
         /\ ~checkPcreCompatibility(PatternOf(EntryNode(trace[k]))).safe)
            => ~trace[k].valid /\ ~trace[k].met /\ ~IsNull(trace[k].message)

\* evaluate returned from the iteration-limit check: a node was left and
\* iterations exceeded maxIterations
CapFired == pc = "done" /\ i <= Len(doc.nodes) /\ state.iterations > config.maxIterations

\* C11, as stated: status is 'redirect' exactly when statusCode is non-null,
\* otherwise 'limit-exceeded' when the iteration cap fired, otherwise 'ok';
\* statusCode is the redirect value
StatusRedirectFirst ==
    pc = "done"
        => /\ output.statusCode = state.redirect
           /\ output.status = IF ~IsNull(output.statusCode) THEN "redirect"
                              ELSE IF CapFired THEN "limit-exceeded" ELSE "ok"

\* C11, as the code has it: status is 'limit-exceeded' when the iteration cap
\* fired, otherwise 'redirect' exactly when statusCode is non-null, otherwise
\* 'ok'; statusCode is the redirect value
StatusLimitFirst ==
    pc = "done"
        => /\ output.statusCode = state.redirect
           /\ output.status = IF CapFired THEN "limit-exceeded"
                              ELSE IF ~IsNull(output.statusCode) THEN "redirect" ELSE "ok"

\* the cap fired after a rule had set a redirect, and a redirect was returned
\* without the cap firing
CapFiredWithRedirect == CapFired /\ ~IsNull(output.statusCode)

\* the entries of the returned trace are those pushed before the halt, all of
\* nodes above node i
HaltedTrace ==
    /\ output.trace = trace
    /\ \A k \in 1..Len(output.trace) : output.trace[k].lineNo < i

HaltStep ==
    (pc = "loop" /\ i <= Len(doc.nodes) /\ state.iterations > config.maxIterations)
        => /\ pc' = "done"
           /\ output'.status = "limit-exceeded"
           /\ output'.trace = trace
           /\ UNCHANGED <<i, state, trace, pendingConditions>>

MatchedRuleStep ==
    /\ pc = "loop"
    /\ i <= Len(doc.nodes)
    /\ i' = i + 1
    /\ doc.nodes[i].kind = "RewriteRule"
    /\ Len(trace') > Len(trace)
    /\ trace'[Len(trace')].met

\* what a matched rule with these flags makes of redirect, stopped and hardStop
FlagEffects(flags) ==
    /\ state'.redirect = IF flags.gone THEN Some(410)
                         ELSE IF flags.forbidden THEN Some(403)
                         ELSE IF ~IsNull(flags.redirect) THEN flags.redirect
                         ELSE state.redirect
    /\ state'.stopped = (state.stopped \/ StoppingFlags(flags))
    /\ state'.hardStop = (state.hardStop \/ flags.end)

\* the flags as the line writes them: a bare R gives 302, R=301 gives 301,
\* and a line without a stopping flag leaves the three fields alone
FlagTextEffects(rawLine) ==
    /\ EndsWith(rawLine, "[R]") => state'.redirect = Some(302)
    /\ EndsWith(rawLine, "[R=301,L]") => state'.redirect = Some(301) /\ state'.stopped
    /\ EndsWith(rawLine, "[F]") => state'.redirect = Some(403) /\ state'.stopped
    /\ EndsWith(rawLine, "[G]") => state'.redirect = Some(410) /\ state'.stopped
    /\ EndsWith(rawLine, "[L]") => state'.stopped /\ ~state'.hardStop
    /\ EndsWith(rawLine, "[END]") => state'.stopped /\ state'.hardStop
    /\ (EndsWith(rawLine, "-") \/ EndsWith(rawLine, "[NC]")) =>
           /\ state'.redirect = state.redirect
           /\ state'.stopped = state.stopped
           /\ state'.hardStop = state.hardStop

MatchedRuleFlagStep ==
    MatchedRuleStep => FlagEffects(doc.nodes[i].flags) /\ FlagTextEffects(doc.nodes[i].rawLine)

\* C13: when a rule's pattern matches, a redirect flag sets the redirect value
\* (302 for a bare R), F sets 403, G sets 410 (the later of these wins), each
\* of R, F, G, L and END sets stopped, END also hardStop, and a rule with none
\* of them leaves stopped, hardStop and the redirect value unchanged
MatchedRuleAppliesFlags == [][MatchedRuleFlagStep]_vars

\* a run in which a rule with G matched and one in which a rule without a
\* stopping flag matched before it
GoneAfterPlainMatch ==
    /\ state.redirect = Some(410)
    /\ state.stopped
    /\ \E k \in 1..Len(trace) :
           /\ EntryKind(trace[k]) = "RewriteRule"
           /\ trace[k].met
           /\ ~StoppingFlags(EntryNode(trace[k]).flags)

\* the outcome of a condition of the condition-group inputs, which tests the
\* host against "^" and a letter: the host starts with the letter, flipped
\* when the condition is negated
CondOutcome(cond) ==
    StartsWith(ServerVariables.HTTP_HOST, From(cond.condPattern, 2)) /= cond.isNegated

\* members m..e of the group belong to one OR chain: all but e carry ornext
OneChain(conds, m, e) == \A j \in m..(e - 1) : conds[j].flags.ornext

\* the AND over the OR chains of the OR of the members of each chain; a chain
\* ends at a member without ornext and at the last member
ChainsSatisfied(conds) ==
    \A e \in 1..Len(conds) :
        (~conds[e].flags.ornext \/ e = Len(conds))
            => \E m \in 1..e : OneChain(conds, m, e) /\ CondOutcome(conds[m])

\* the step processes node i, a RewriteRule, with the engine on and not stopped
ReachedRuleStep ==
    /\ pc = "loop"
    /\ i <= Len(doc.nodes)
    /\ i' = i + 1
    /\ doc.nodes[i].kind = "RewriteRule"
    /\ state.engineEnabled
    /\ ~(state.stopped \/ state.hardStop)

\* the rule is reached exactly when its condition group is satisfied
GroupValueStep ==
    ReachedRuleStep => trace'[Len(trace')].reached = ChainsSatisfied(pendingConditions)

\* C14: the value of a condition group is the AND over its OR chains of the
\* OR of the members of each chain, a chain being a maximal run whose members
\* except the last carry ornext; an empty group is satisfied; a negated
\* condition contributes the flipped outcome
GroupIsAndOfOrChains == [][GroupValueStep]_vars

\* a rule was reached through a group of three conditions whose first chain
\* has two members, the first of them unmet
RuleReachedThroughOrChain ==
    \E k \in 1..Len(trace) :
        /\ k > 3
        /\ EntryKind(trace[k]) = "RewriteRule"
        /\ trace[k].reached
        /\ \A m \in (k - 3)..(k - 1) : EntryKind(trace[m]) = "RewriteCond"
        /\ EntryNode(trace[k - 3]).flags.ornext
        /\ ~trace[k - 3].met
        /\ ~EntryNode(trace[k - 2]).flags.ornext

\* the loop index moves forward by one node at a time, and a step that does
\* not move it is a return
VisitsForward ==
    pc = "loop" => ((i' = i + 1 /\ pc' = pc) \/ (i' = i /\ pc' = "done"))

\* C16: for every url, rules text, serverVariables map and configuration,
\* evaluate terminates and returns an output record, and each node of the
\* parsed document is visited at most once: no step restarts or jumps back
AlwaysReturns ==
    /\ <>(pc = "done" /\ output.status \in {"ok", "redirect", "limit-exceeded"})
    /\ [][VisitsForward]_vars

\* evaluate has returned for a string that is no URL, after a matched rule
\* with the N flag
ReturnedAfterNextFlag ==
    /\ pc = "done"
    /\ input.url = "x"
    /\ \E k \in 1..Len(output.trace) :
           EntryKind(output.trace[k]) = "RewriteRule" /\ EntryNode(output.trace[k]).flags.next

\* the entry a step pushes: one entry more, for node i, the earlier ones kept
PushedEntryIs(reached, met, valid) ==
    /\ Len(trace') = Len(trace) + 1
    /\ SubSeq(trace', 1, Len(trace)) = trace
    /\ trace'[Len(trace')].lineNo = i
    /\ trace'[Len(trace')].reached = reached
    /\ trace'[Len(trace')].met = met
    /\ trace'[Len(trace')].valid = valid

\* the step leaves the URL components, the captures, redirect, stopped,
\* rewriteBase and engineEnabled alone and goes on to the next node
RewritingStateKept ==
    /\ \A f \in {"currentPath", "queryString", "scheme", "host", "ruleCaptures",
                  "condCaptures", "redirect", "stopped", "hardStop", "rewriteBase",
                  "engineEnabled"} : state'[f] = state[f]
    /\ i' = i + 1
    /\ pc' = "loop"

ErrorNodeStep ==
    /\ AtNode("ParseError") =>
           /\ PushedEntryIs(TRUE, FALSE, FALSE)
           /\ trace'[Len(trace')].message = Some(doc.nodes[i].message)
           /\ RewritingStateKept
    /\ AtNode("Unknown") =>
           /\ PushedEntryIs(state.engineEnabled, FALSE, TRUE)
           /\ ~IsNull(trace'[Len(trace')].message)
           /\ StartsWith(Val(trace'[Len(trace')].message), "Unsupported directive")
           /\ RewritingStateKept

\* C19: a ParseError node is traced reached=true, met=false, valid=false
\* with the parse message, an Unknown directive reached=engineEnabled,
\* met=false, valid=true with an "Unsupported directive" message; neither
\* changes the URL components, the captures, redirect, stopped, rewriteBase
\* or engineEnabled, and the evaluation goes on with the next line
ErrorNodesTracedOnly == [][ErrorNodeStep]_vars

\* the evaluation went on after a ParseError node and an Unknown directive
\* reached with the engine on
ContinuedAfterErrorNodes ==
    /\ pc = "done"
    /\ Len(trace) = 3
    /\ EntryKind(trace[2]) = "Unknown" /\ trace[2].reached
    /\ EntryKind(trace[3]) = "ParseError"
    /\ state.engineEnabled

\* the number of directives of the parsed document
DirectiveCount ==
    Cardinality({k \in 1..Len(doc.nodes) : doc.nodes[k].kind \notin {"BlankLine", "Comment"}})

\* the call was rejected: it did not return a rewriting result
Rejected == pc = "done" => output.status \notin {"ok", "redirect"}

\* C20: a call whose URL is longer than the configured maxUrlLength is
\* rejected before any directive is evaluated, and an input whose parsed
\* directive count exceeds the configured maxRuleCount is rejected
CapsHonored ==
    /\ Len(input.url) > config.maxUrlLength =>
           /\ \A k \in 1..Len(trace) : EntryKind(trace[k]) \in {"BlankLine", "Comment"}
           /\ Rejected
    /\ DirectiveCount > config.maxRuleCount => Rejected

\* ------------------------------------------------------------------------
\* Properties of parse
\* ------------------------------------------------------------------------

NodeKinds ==
    {"BlankLine", "Comment", "RewriteEngine", "RewriteBase", "RewriteCond", "RewriteRule",
     "Unknown", "ParseError"}

DirectiveNames == {"rewriteengine", "rewritebase", "rewritecond", "rewriterule"}

\* the first whitespace-delimited token of a trimmed line
FirstToken(t) ==
    IF \E k \in 1..Len(t) : IsSpace(Ch(t, k))
    THEN SubSeq(t, 1, (CHOOSE k \in 1..Len(t) :
                          IsSpace(Ch(t, k)) /\ \A m \in 1..(k - 1) : ~IsSpace(Ch(t, m))) - 1)
    ELSE t

\* what follows the first token of a trimmed line, trimmed
Remainder(t) == Trim(From(t, Len(FirstToken(t)) + 1))

\* the number of whitespace-delimited tokens of an argument string
TokenCount(args) ==
    Cardinality({k \in 1..Len(args) :
                    ~IsSpace(Ch(args, k)) /\ (k = 1 \/ IsSpace(Ch(args, k - 1)))})

\* the kind the parsing rules give a directive line of this name and
\* argument string
DirectiveKindIs(kind, name, args) ==
    /\ name = "rewriteengine" =>
           kind = (IF ToLower(args) \in {"on", "off"} THEN "RewriteEngine" ELSE "ParseError")
    /\ name = "rewritebase" => kind = (IF args = "" THEN "ParseError" ELSE "RewriteBase")
    /\ (name \in {"rewritecond", "rewriterule"} /\ TokenCount(args) < 2) => kind = "ParseError"
    /\ name \notin DirectiveNames => kind = "Unknown"

LineKindIs(kind, t) ==
    /\ kind \in NodeKinds
    /\ (t /= "" /\ ~StartsWith(t, "#")) =>
           DirectiveKindIs(kind, ToLower(FirstToken(t)), Remainder(t))

\* C17: parse classifies every line into one node kind: RewriteEngine with
\* an argument other than on or off, RewriteBase without an argument, and
\* RewriteCond or RewriteRule with fewer than two tokens are ParseError
\* nodes, a line of any other directive name is an Unknown node, and the
\* directive names are matched in any letter case
ParseClassifiesLines ==
    pc = "parsed" =>
        \A k \in 1..Len(doc.nodes) :
            LineKindIs(doc.nodes[k].kind, Trim(doc.nodes[k].rawLine))

\* the content with every \r\n line ending written as \n
RECURSIVE WithLfEndings(_)
WithLfEndings(s) ==
    IF s = "" THEN ""
    ELSE IF StartsWith(s, "\r\n") THEN WithLfEndings(From(s, 2))
    ELSE SubSeq(s, 1, 1) \o WithLfEndings(From(s, 2))

\* C18: parse yields one node per line of the content, lines ending at \n
\* or \r\n: the i-th node carries sourceLineNo = i and the exact text of
\* line i, so the rawLine fields joined with newlines are the content with
\* its line endings written as \n
OneNodePerLine ==
    pc = "parsed" =>
        /\ Len(doc.nodes) =
               1 + Cardinality({k \in 1..Len(input.rules) : Ch(input.rules, k) = "\n"})
        /\ \A k \in 1..Len(doc.nodes) : doc.nodes[k].sourceLineNo = k
        /\ JoinLines([k \in 1..Len(doc.nodes) |-> doc.nodes[k].rawLine])
               = WithLfEndings(input.rules)

\* a content of two lines was parsed, the first indented and ended by \r\n,
\* the second with trailing whitespace
ParsedIndentedCrLf ==
    /\ pc = "parsed"
    /\ input.rules = "  # c\r\nRewriteEngine Off  "
    /\ Len(doc.nodes) = 2

\* ------------------------------------------------------------------------
\* Properties of the regex subjects
\* ------------------------------------------------------------------------

\* the entries the step at a reached rule pushes for its conditions
PushedCondEntry(j) == trace'[Len(trace) + j]

\* a reached rule whose conditions are met matches its pattern through
\* safeMatch, and so does each of its conditions that is evaluated
SubjectCapStep ==
    ReachedRuleStep =>
        /\ (trace'[Len(trace')].reached /\ trace'[Len(trace')].valid)
               => trace'[Len(trace')].met =
                      ~IsNull(safeMatch([source |-> doc.nodes[i].pattern,
                                         nocase |-> doc.nodes[i].flags.nocase],
                                        MatchPath(state), config))
        /\ \A j \in 1..Len(pendingConditions) :
               (PushedCondEntry(j).reached /\ ~pendingConditions[j].isNegated
                   /\ Len(resolveVariables(pendingConditions[j].testString, state))
                          > config.maxRegexSubjectLength)
               => ~PushedCondEntry(j).met

\* C21: every match of a rule pattern or a condition pattern is subject to
\* the subject-length cap: a subject longer than maxRegexSubjectLength yields
\* no match, so no regex is executed on a subject longer than the cap
SubjectCapApplied == [][SubjectCapStep]_vars

\* C22: a reached RewriteCond whose pattern is invalid or unsafe counts as not
\* matched, and its trace entry has valid=false with a message
InvalidCondRejected ==
    \A k \in 1..Len(trace) :
        (/\ EntryKind(trace[k]) = "RewriteCond"
         /\ trace[k].reached
         /\ \/ JsRegExpThrows(EntryNode(trace[k]).condPattern)
            \/ ~checkPatternSafety(EntryNode(trace[k]).condPattern, config).safe)
            => ~trace[k].met /\ ~trace[k].valid /\ ~IsNull(trace[k].message)

\* ------------------------------------------------------------------------
\* Properties of condition groups
\* ------------------------------------------------------------------------

\* the pre-condition check of a rule: the engine is on and nothing stopped
\* the evaluation
PreCheck == state.engineEnabled /\ ~(state.stopped \/ state.hardStop)

\* the step processes node i, a RewriteRule
RuleStep == AtNode("RewriteRule") /\ i' = i + 1

\* the step processes node i, a RewriteCond
CondStep == AtNode("RewriteCond") /\ i' = i + 1

\* the j-th condition traced with the rule follows, in its OR chain, a
\* member that was traced met
AfterMetMember(j) ==
    \E m \in 1..(j - 1) : OneChain(pendingConditions, m, j) /\ PushedCondEntry(m).met

\* a condition met outside the pre-condition check is traced at once, as not
\* reached
CondTracedUnreached ==
    (CondStep /\ ~PreCheck) =>
        /\ Len(trace') = Len(trace) + 1
        /\ ~trace'[Len(trace')].reached

\* C23, as stated: all condition entries of a rule's group have the same
\* reached value, the rule's pre-condition check
GroupReachedIsPreCheckStep ==
    /\ CondTracedUnreached
    /\ RuleStep => \A j \in 1..Len(pendingConditions) : PushedCondEntry(j).reached = PreCheck

GroupReachedIsPreCheck == [][GroupReachedIsPreCheckStep]_vars

GroupReachedStep ==
    /\ CondTracedUnreached
    /\ RuleStep =>
           /\ Len(trace') = Len(trace) + Len(pendingConditions) + 1
           /\ \A j \in 1..Len(pendingConditions) :
                  /\ PushedCondEntry(j).lineNo = pendingConditions[j].sourceLineNo
                  /\ PushedCondEntry(j).reached = (PreCheck /\ ~AfterMetMember(j))

\* C23, as the code has it: a condition entry of a rule's group has the
\* reached value of the rule's pre-condition check, except that a member of
\* an OR chain after a met member of that chain is traced reached=false
GroupReachedButShortCircuit == [][GroupReachedStep]_vars

\* a reached rule was traced after a group of two conditions, the first met
\* and carrying ornext, the second not reached
GroupTracedShortCircuited ==
    \E k \in 1..Len(trace) :
        /\ k > 2
        /\ EntryKind(trace[k]) = "RewriteRule" /\ trace[k].reached
        /\ EntryKind(trace[k - 1]) = "RewriteCond" /\ ~trace[k - 1].reached
        /\ EntryKind(trace[k - 2]) = "RewriteCond" /\ trace[k - 2].met
        /\ EntryNode(trace[k - 2]).flags.ornext

\* ------------------------------------------------------------------------
\* Properties of the flags without effect
\* ------------------------------------------------------------------------

\* what the claim observes of a trace entry
EntryDisposition(e) == <<e.lineNo, e.reached, e.met, e.valid>>

\* two outputs agree in finalUrl, status, statusCode and the dispositions of
\* their trace entries
SameOutcome(a, b) ==
    /\ a.finalUrl = b.finalUrl
    /\ a.status = b.status
    /\ a.statusCode = b.statusCode
    /\ Len(a.trace) = Len(b.trace)
    /\ \A k \in 1..Len(a.trace) : EntryDisposition(a.trace[k]) = EntryDisposition(b.trace[k])

\* the second call returns what the first returned
SecondReturnStep ==
    (pc = "loop" /\ pc' = "done" /\ output /= NoOutput) => SameOutcome(output', output)

\* C24: the output of evaluate (finalUrl, status, statusCode and every trace
\* entry's reached, met and valid) does not depend on the flags next, skip,
\* chain, passthrough, proxy, type, env, cookie and noescape: rules that
\* differ only in the presence of these flags produce the same output
InertFlagsChangeNothing == [][SecondReturnStep]_vars

\* both calls have returned, the first for rules with a matched rule that
\* carried an inert flag next to a redirect
ReturnedWithoutInertFlags ==
    /\ pc = "done"
    /\ output.status = "redirect"
    /\ Includes(input.rules, "RewriteRule ^a$ /b [R=301]")
    /\ ~Includes(input.rules, "PT")

\* ------------------------------------------------------------------------
\* Properties of rules that do not match
\* ------------------------------------------------------------------------

\* the step processes a rule that is traced reached and not met: its pattern
\* does not compile or does not match the path
UnmetRuleStep ==
    /\ RuleStep
    /\ trace'[Len(trace')].reached
    /\ ~trace'[Len(trace')].met

\* the step leaves these fields of the state alone
StateKeeps(fields) == \A f \in fields : state'[f] = state[f]

\* the step changes none of the fields the claim lists and goes on to the
\* next line
UnmetRuleKeepsStateStep ==
    UnmetRuleStep =>
        /\ StateKeeps({"scheme", "host", "currentPath", "queryString", "ruleCaptures",
                       "condCaptures", "redirect", "stopped", "hardStop", "rewriteBase"})
        /\ pc' = "loop"

UnmetRuleKeepsUrlStep ==
    UnmetRuleStep =>
        /\ StateKeeps({"scheme", "host", "currentPath", "queryString", "ruleCaptures",
                       "redirect", "stopped", "hardStop", "rewriteBase"})
        /\ \/ state'.condCaptures = state.condCaptures
           \/ \E j \in 1..Len(pendingConditions) :
                  /\ PushedCondEntry(j).met
                  /\ state'.condCaptures = evaluateCond(pendingConditions[j], state).captures
        /\ pc' = "loop"

OnlyCondsFrom(s) ==
    \A j \in s..(i - 1) : doc.nodes[j].kind \in {"RewriteCond", "BlankLine"}

\* the run of RewriteCond nodes immediately preceding node i
ContiguousConds ==
    SelectSeq(SubSeq(doc.nodes,
                     CHOOSE s \in 1..i : OnlyCondsFrom(s) /\ (s = 1 \/ ~OnlyCondsFrom(s - 1)),
                     i - 1),
              LAMBDA n : n.kind = "RewriteCond")

\* a rule that passes the pre-condition check is reached exactly when the
\* conditions immediately preceding it are satisfied
ContiguousRunStep ==
    ReachedRuleStep =>
        trace'[Len(trace')].reached = evaluateConditionGroup(ContiguousConds, state).met

\* C26: only the contiguous run of RewriteCond lines immediately preceding a
\* RewriteRule decides whether that rule is reached: a RewriteCond separated
\* from the next RewriteRule by another non-blank directive never blocks or
\* enables that rule
ContiguousRunDecides == [][ContiguousRunStep]_vars

\* ------------------------------------------------------------------------
\* Properties of the trace of an OR chain
\* ------------------------------------------------------------------------

\* the j-th pending condition follows, in its OR chain, a member whose
\* outcome is a match
AfterMatchingMember(j) ==
    \E m \in 1..(j - 1) :
        OneChain(pendingConditions, m, j) /\ CondOutcome(pendingConditions[m])

\* the entry pushed for the j-th pending condition
CondEntryIs(j, reached, met, valid) ==
    /\ EntryNode(PushedCondEntry(j)) = pendingConditions[j]
    /\ PushedCondEntry(j).reached = reached
    /\ PushedCondEntry(j).met = met
    /\ PushedCondEntry(j).valid = valid

\* the conditions of a rule that passes the pre-condition check are traced
\* with the rule: not reached after a matching member of their chain, reached
\* with their own outcome otherwise
OrChainTraceStep ==
    ReachedRuleStep =>
        /\ Len(trace') = Len(trace) + Len(pendingConditions) + 1
        /\ \A j \in 1..Len(pendingConditions) :
               IF AfterMatchingMember(j)
               THEN CondEntryIs(j, FALSE, FALSE, TRUE)
               ELSE CondEntryIs(j, TRUE, CondOutcome(pendingConditions[j]), TRUE)

\* C27: within an OR chain of a reached condition group, once a member is
\* met every remaining member of the same chain is traced reached=false,
\* met=false, valid=true, while the members before it and the conditions of
\* the other chains (up to a met member of their own) are traced reached=true
\* with their own met value
OrChainShortCircuitTraced == [][OrChainTraceStep]_vars

\* a chain of three conditions was traced with its rule: the first reached
\* and not met, the second met, the third not reached
OrChainTracedPastMetMember ==
    \E k \in 4..Len(trace) :
        /\ EntryKind(trace[k]) = "RewriteRule"
        /\ \A m \in (k - 3)..(k - 1) : EntryKind(trace[m]) = "RewriteCond"
        /\ EntryNode(trace[k - 3]).flags.ornext /\ EntryNode(trace[k - 2]).flags.ornext
        /\ trace[k - 3].reached /\ ~trace[k - 3].met
        /\ trace[k - 2].reached /\ trace[k - 2].met
        /\ ~trace[k - 1].reached /\ ~trace[k - 1].met /\ trace[k - 1].valid

\* ------------------------------------------------------------------------
\* Properties of condCaptures
\* ------------------------------------------------------------------------

\* member j of group g is met: it matches and follows no matching member of
\* its OR chain
MetInGroup(g, j) ==
    /\ evaluateCond(g[j], state).met
    /\ ~\E m \in 1..(j - 1) : OneChain(g, m, j) /\ evaluateCond(g[m], state).met

\* the met members of group g that produced captures
CapturingMembers(g) ==
    {j \in 1..Len(g) : MetInGroup(g, j) /\ evaluateCond(g[j], state).captures /= <<>>}

\* the last member of a non-empty set of members
LastMember(members) == CHOOSE j \in members : \A m \in members : m <= j

\* condCaptures after a rule with group g
CondCapturesAfter(g) ==
    IF evaluateConditionGroup(g, state).met /\ CapturingMembers(g) /= {}
    THEN evaluateCond(g[LastMember(CapturingMembers(g))], state).captures
    ELSE state.condCaptures

\* a rule that passes the pre-condition check leaves in condCaptures what
\* its condition group, the conditions immediately preceding it, prescribes
CondCapturesStep == ReachedRuleStep => state'.condCaptures = CondCapturesAfter(ContiguousConds)

\* C28: when a rule's condition group is satisfied and at least one met
\* condition produced regex captures, condCaptures becomes the captures of
\* the last such condition in the group; when the group is not satisfied, or
\* no met condition produced captures, condCaptures keeps its previous value
CondCapturesFromLastMet == [][CondCapturesStep]_vars

\* ------------------------------------------------------------------------
\* Properties of the query string
\* ------------------------------------------------------------------------

\* the query string a substitution text carries: what follows its first "?"
QueryOf(substitution) ==
    IF Includes(substitution, "?")
    THEN From(substitution, IndexOf(substitution, "?") + 1) ELSE ""

\* the substitution text without its query string
WithoutQuery(substitution) == Before(substitution, IndexOf(substitution, "?"))

\* the query-string policy: new is the substitution's query, orig the
\* query string before the rule
QueryPolicy(flags, new, orig) ==
    IF flags.qsdiscard THEN new
    ELSE IF flags.qsappend /\ orig /= ""
        THEN (IF new = "" THEN orig ELSE new \o "&" \o orig)
    ELSE IF new = "" THEN orig
    ELSE new

\* the step processes a matched rule whose substitution is an absolute URL
AbsoluteRuleStep ==
    MatchedRuleStep /\ IsAbsoluteUrl(ToLower(doc.nodes[i].substitution))

\* the step processes a matched rule whose substitution is a relative one
RelativeRuleStep ==
    MatchedRuleStep /\ doc.nodes[i].substitution /= "-" /\ ~AbsoluteRuleStep

RelativeQueryStep ==
    RelativeRuleStep =>
        state'.queryString = QueryPolicy(doc.nodes[i].flags,
                                         QueryOf(doc.nodes[i].substitution),
                                         state.queryString)

\* C29: for a matched rule with a relative substitution the resulting query
\* string is: with qsdiscard, exactly the substitution's query, also when
\* qsappend is set as well; otherwise with qsappend and a non-empty original
\* query, the substitution's query followed by "&" and the original (the
\* original alone when the substitution has none); otherwise the original
\* query when the substitution has none, and the substitution's query when
\* it has one
RelativeQueryPolicy == [][RelativeQueryStep]_vars

\* a relative substitution with a query and both flags has replaced the
\* query string of the request
RelativeQueryDiscarded ==
    /\ state.queryString = "x=1"
    /\ Len(trace) > 0
    /\ EntryKind(trace[Len(trace)]) = "RewriteRule"
    /\ trace[Len(trace)].met
    /\ EntryNode(trace[Len(trace)]).flags.qsdiscard
    /\ EntryNode(trace[Len(trace)]).flags.qsappend
    /\ Includes(input.url, "?q=1")

AbsoluteQueryStep ==
    AbsoluteRuleStep =>
        /\ buildUrl(state'.scheme, state'.host, state'.currentPath, "")
               = WithoutQuery(doc.nodes[i].substitution)
        /\ state'.queryString = QueryPolicy(doc.nodes[i].flags,
                                            QueryOf(doc.nodes[i].substitution),
                                            state.queryString)

\* C30: the same query-string policy applies when the substitution is an
\* absolute http(s) URL: scheme, host, path and query are overwritten from
\* the substitution, and without qsdiscard an absolute substitution that
\* carries no query string inherits the original query string
AbsoluteQueryPolicy == [][AbsoluteQueryStep]_vars

\* ------------------------------------------------------------------------
\* Properties of the substitution "-"
\* ------------------------------------------------------------------------

\* the step processes a rule of the flag inputs with the substitution "-"
\* whose conditions are satisfied and whose pattern, ^a$, matches the path
DashRuleStep ==
    /\ ReachedRuleStep
    /\ trace'[Len(trace')].reached
    /\ doc.nodes[i].substitution = "-"
    /\ doc.nodes[i].pattern = "^a$"
    /\ MatchPath(state) = "a"

\* every rule traced met so far has the substitution "-"
OnlyDashRulesMet ==
    \A k \in 1..Len(trace) :
        (EntryKind(trace[k]) = "RewriteRule" /\ trace[k].met)
            => EntryNode(trace[k]).substitution = "-"

DashKeepsUrlStep ==
    /\ DashRuleStep =>
           /\ trace'[Len(trace')].met
           /\ StateKeeps({"scheme", "host", "currentPath", "queryString"})
           /\ FlagEffects(doc.nodes[i].flags)
    /\ (pc = "loop" /\ pc' = "done" /\ OnlyDashRulesMet) =>
           /\ output'.finalUrl = input.url
           /\ output'.statusCode = state.redirect

\* C31: a matched rule whose substitution is "-" leaves scheme, host,
\* currentPath and queryString unchanged, while its flags are still applied
\* ([F] yields statusCode 403 with finalUrl equal to the input URL) and the
\* rule entry has met=true
DashKeepsUrl == [][DashKeepsUrlStep]_vars

\* evaluate has returned 403 and the input URL after a rule "-" with F matched
ForbiddenWithUrlKept ==
    /\ pc = "done"
    /\ output.statusCode = Some(403)
    /\ output.finalUrl = input.url
    /\ \E k \in 1..Len(output.trace) :
           /\ EntryKind(output.trace[k]) = "RewriteRule"
           /\ output.trace[k].met
           /\ EntryNode(output.trace[k]).substitution = "-"
           /\ EntryNode(output.trace[k]).flags.forbidden

\* ------------------------------------------------------------------------
\* Properties of RewriteBase
\* ------------------------------------------------------------------------

\* the argument of the RewriteBase line of node i
BaseArgument == Trim(From(Trim(doc.nodes[i].rawLine), Len("RewriteBase") + 1))

\* a RewriteBase is traced with reached = engineEnabled and sets rewriteBase,
\* to its argument ending in a slash, with the engine on only
RewriteBaseStep ==
    (AtNode("RewriteBase") /\ i' = i + 1) =>
        IF state.engineEnabled
        THEN /\ PushedEntryIs(TRUE, TRUE, TRUE)
             /\ state'.rewriteBase = IF EndsWith(BaseArgument, "/") THEN BaseArgument
                                      ELSE BaseArgument \o "/"
        ELSE /\ PushedEntryIs(FALSE, TRUE, TRUE)
             /\ state'.rewriteBase = state.rewriteBase

\* the path of a matched relative substitution carries rewriteBase in front
\* exactly when it has no leading slash and rewriteBase is not the root
BasePrefixStep ==
    RelativeRuleStep =>
        state'.currentPath =
            IF ~StartsWith(doc.nodes[i].substitution, "/") /\ state.rewriteBase /= "/"
            THEN state.rewriteBase \o WithoutQuery(doc.nodes[i].substitution)
            ELSE WithoutQuery(doc.nodes[i].substitution)

\* C32: RewriteBase takes effect only while the engine is enabled: processed
\* with the engine off it is traced reached=false, met=true, valid=true and
\* leaves rewriteBase unchanged; processed with the engine on it is traced
\* reached=true and sets rewriteBase, after which a relative substitution
\* whose path does not start with "/" is prefixed with rewriteBase exactly
\* when rewriteBase is not "/"
RewriteBaseOnlyWhenEnabled == [][RewriteBaseStep /\ BasePrefixStep]_vars

\* with the engine on a RewriteBase set the base and the relative
\* substitution of the rule after it was prefixed with it
PrefixedWithBase ==
    /\ Len(trace) = 3
    /\ EntryKind(trace[2]) = "RewriteBase" /\ trace[2].reached
    /\ EntryKind(trace[3]) = "RewriteRule" /\ trace[3].met
    /\ state.rewriteBase = "/s/"
    /\ state.currentPath = "/s/b"

\* ------------------------------------------------------------------------
\* Properties of the iteration count
\* ------------------------------------------------------------------------

\* the rules processed so far whose condition group was satisfied: those
\* traced reached
SatisfiedRules ==
    {k \in 1..Len(trace) : EntryKind(trace[k]) = "RewriteRule" /\ trace[k].reached}

\* C33: at every point of an evaluation, iterations equals the number of
\* RewriteRule nodes processed so far whose condition group was satisfied;
\* rules that are unreached (engine off, stopped) or whose condition group
\* failed do not count toward the iteration cap
IterationsCountSatisfiedRules == state.iterations = Cardinality(SatisfiedRules)

\* ------------------------------------------------------------------------
\* Properties of env
\* ------------------------------------------------------------------------

\* the part of a URL of the environment inputs after scheme and host
RequestUriOf(url) == From(url, IndexOf(From(url, Len("http://") + 1), "/") + Len("http://"))

\* serverVariables with REQUEST_URI and QUERY_STRING overwritten from the URL
EnvOf(in) ==
    [n \in DOMAIN in.serverVariables \cup {"REQUEST_URI", "QUERY_STRING"} |->
        IF n = "REQUEST_URI" THEN RequestUriOf(in.url)
        ELSE IF n = "QUERY_STRING" THEN QueryOf(in.url)
        ELSE in.serverVariables[n]]

\* the name a test string of the environment inputs, %{NAME}, refers to
VariableNameOf(testString) == SubSeq(testString, 3, Len(testString) - 1)

\* what env prescribes for a name: its value, the empty string when absent
EnvValue(name) == IF name \in DOMAIN state.env THEN state.env[name] ELSE ""

\* a condition that tests %{NAME} against ^$ is traced met exactly when env
\* prescribes the empty string for NAME
EmptyTestStep ==
    ReachedRuleStep =>
        \A j \in 1..Len(pendingConditions) :
            pendingConditions[j].condPattern = "^$" =>
                PushedCondEntry(j).met
                    = (EnvValue(VariableNameOf(pendingConditions[j].testString)) = "")

\* env is what the input prescribes, before and after the step
EnvOfInputStep == state.env = EnvOf(input) /\ state'.env = EnvOf(input')

\* C34: env is a function of the input only: it is serverVariables with
\* REQUEST_URI overwritten by "/<path>[?query]" and QUERY_STRING by the query
\* of the input URL, it is not changed by any directive or rewrite during the
\* evaluation, and %{NAME} for a name absent from env resolves to the empty
\* string
EnvFromInputOnly == [][EnvOfInputStep /\ EmptyTestStep]_vars

\* ------------------------------------------------------------------------
\* Properties of the state after a stop
\* ------------------------------------------------------------------------

\* once stopped, a step keeps stopped and the URL components and redirect,
\* and a return reports them
AfterStopStep ==
    state.stopped =>
        /\ state'.stopped
        /\ StateKeeps({"scheme", "host", "currentPath", "queryString", "redirect"})
        /\ (pc = "loop" /\ pc' = "done") =>
               /\ output'.finalUrl = buildUrl(state.scheme, state.host, state.currentPath,
                                              state.queryString)
               /\ output'.statusCode = state.redirect

\* C36: within one evaluation stopped is never cleared once set, and from
\* the moment it is set scheme, host, currentPath, queryString and redirect
\* never change: finalUrl and statusCode are those fixed by the first
\* matched rule carrying L, R, F, G or END, whatever directives follow
StoppedIsFinal == [][AfterStopStep]_vars

\* evaluate has returned the URL a stopping rule fixed, RewriteEngine Off
\* having come after the rule
ReturnedAfterStopAndEngineOff ==
    /\ pc = "done"
    /\ state.stopped
    /\ ~state.engineEnabled
    /\ Len(output.trace) = 3
    /\ EntryKind(output.trace[2]) = "RewriteRule" /\ output.trace[2].met
    /\ EntryKind(output.trace[3]) = "RewriteEngine"
    /\ output.finalUrl = "http://h.c/b"

\* ------------------------------------------------------------------------
\* Properties of the two evaluations of a condition group
\* ------------------------------------------------------------------------

\* every OR chain of the pending conditions has a member whose pushed entry
\* is reached and met
EveryChainTracedMet ==
    \A e \in 1..Len(pendingConditions) :
        (~pendingConditions[e].flags.ornext \/ e = Len(pendingConditions))
            => \E m \in 1..e :
                   /\ OneChain(pendingConditions, m, e)
                   /\ PushedCondEntry(m).reached
                   /\ PushedCondEntry(m).met

DecisionIsTraceStep ==
    ReachedRuleStep => trace'[Len(trace')].reached = EveryChainTracedMet

\* C37: for every rule that passes the pre-condition check the decision and
\* the trace agree, although conditions are evaluated once for the decision
\* and a second time for the trace: the RewriteRule entry has reached=true
\* exactly when every OR chain of its condition group contains a RewriteCond
\* entry traced with reached=true and met=true
DecisionAgreesWithTrace == [][DecisionIsTraceStep]_vars

\* a rule was reached through two chains, the first satisfied by its first
\* member, whose second member was skipped, the second by its only member
RuleReachedThroughTracedChains ==
    \E k \in 4..Len(trace) :
        /\ EntryKind(trace[k]) = "RewriteRule" /\ trace[k].reached
        /\ \A m \in (k - 3)..(k - 1) : EntryKind(trace[m]) = "RewriteCond"
        /\ EntryNode(trace[k - 3]).flags.ornext /\ trace[k - 3].met
        /\ ~EntryNode(trace[k - 2]).flags.ornext /\ ~trace[k - 2].reached
        /\ trace[k - 1].reached /\ trace[k - 1].met

\* ------------------------------------------------------------------------
\* Trace statistics (service mapTraceLine, TraceFilter calculateStats)
\* ------------------------------------------------------------------------

\* mapTraceLine: the result line the service makes of a trace entry
mapTraceLine(t) ==
    [line        |-> t.rawLine,
     message     |-> t.message,
     isMet       |-> t.met,
     isValid     |-> t.valid,
     wasReached  |-> t.reached,
     isSupported |-> t.valid]

\* calculateStats: each count is lines.filter(p).length
calculateStats(lines) ==
    [total      |-> Len(lines),
     met        |-> Cardinality({k \in 1..Len(lines) : lines[k].isMet}),
     notMet     |-> Cardinality({k \in 1..Len(lines) :
                                    ~lines[k].isMet /\ lines[k].wasReached}),
     invalid    |-> Cardinality({k \in 1..Len(lines) : ~lines[k].isValid}),
     notReached |-> Cardinality({k \in 1..Len(lines) : ~lines[k].wasReached})]

\* the result lines of the returned trace: result.trace.map(mapTraceLine)
ResultLines == [k \in 1..Len(output.trace) |-> mapTraceLine(output.trace[k])]

\* C38: once evaluate has returned, the statistics of its result lines
\* partition them: met + notMet + notReached = total
StatsPartitionLines ==
    pc = "done" =>
        calculateStats(ResultLines).met + calculateStats(ResultLines).notMet
            + calculateStats(ResultLines).notReached
          = calculateStats(ResultLines).total

\* ------------------------------------------------------------------------
\* The HTTP client (http/client.ts, http/mapper.ts)
\* ------------------------------------------------------------------------

\* new HtaccessApiError(message, isRetryable, statusCode)
HtaccessApiError(message, isRetryable, statusCode) ==
    [name |-> "HtaccessApiError", message |-> message,
     isRetryable |-> isRetryable, statusCode |-> statusCode]

\* an error of the platform: the AbortError of an aborted fetch, the TypeError
\* of a failed fetch or body read, the SyntaxError of JSON.parse
JsError(name, message) == [name |-> name, message |-> message]

\* response bodies: a test response, an error response, the JSON text null,
\* and a text that is not JSON
BodyResult == "{\"output_url\":\"http://h.c/b\"}"

BodyError == "{\"error\":\"bad\"}"

BodyNull == "null"

BodyText == "<fetch>"

Bodies == {BodyResult, BodyError, BodyNull, BodyText}

\* JSON.parse(rawResponse) for the bodies: Null when it throws a SyntaxError
JsonParse(raw) ==
    CASE raw = BodyResult ->
             Some([isNull |-> FALSE, output_url |-> Some("http://h.c/b"),
                   error |-> Null, details |-> Null])
      [] raw = BodyError ->
             Some([isNull |-> FALSE, output_url |-> Null,
                   error |-> Some("bad"), details |-> Null])
      [] raw = BodyNull ->
             Some([isNull |-> TRUE, output_url |-> Null, error |-> Null, details |-> Null])
      [] OTHER -> Null

\* the message of the SyntaxError JSON.parse throws is left to the engine:
\* older V8 names the position, newer V8 quotes the text
JsonParseMessages(raw) ==
    {"Unexpected token < in JSON at position 0",
     "Unexpected token '<', \"" \o raw \o "\" is not valid JSON"}

Statuses == {200, 404, 429, 500}

\* what one fetch and the reading of its body can come to: the timer aborts the
\* fetch, the fetch fails, the body read fails, or a response arrives
FetchOutcomes ==
    {[kind |-> "abort", status |-> 0, body |-> "", message |-> "This operation was aborted"],
     [kind |-> "reject", status |-> 0, body |-> "", message |-> "fetch failed"],
     [kind |-> "body", status |-> 200, body |-> "", message |-> "terminated"]}
    \cup {[kind |-> "response", status |-> s, body |-> b, message |-> ""] :
              s \in Statuses, b \in Bodies \ {BodyText}}
    \cup {[kind |-> "response", status |-> s, body |-> BodyText, message |-> m] :
              s \in Statuses, m \in JsonParseMessages(BodyText)}

\* a value one executeRequest call returns, or the error it throws
Returned(result) == [ok |-> TRUE, result |-> result, error |-> Null]

Threw(error) == [ok |-> FALSE, result |-> Null, error |-> error]

mapResponseToResult(dto, rawResponse) ==
    [outputUrl        |-> IF IsNull(dto.output_url) THEN "" ELSE Val(dto.output_url),
     outputStatusCode |-> Null,
     lines            |-> <<>>,
     rawResponse      |-> rawResponse]

\* the client-error branch of handleErrorResponse: the message of the error
\* body, or the fallback when the body does not parse or has no message
ClientErrorMessage(status, dto) ==
    IF IsNull(dto) \/ Val(dto).isNull
    THEN "Request failed with status " \o ToString(status)
    ELSE IF ~IsNull(Val(dto).error) THEN Val(Val(dto).error)
    ELSE IF ~IsNull(Val(dto).details) THEN Val(Val(dto).details)
    ELSE "Request failed with status " \o ToString(status)

\* handleErrorResponse always throws: the error it throws
handleErrorResponse(status, rawResponse) ==
    IF status = 429
    THEN HtaccessApiError("Rate limit exceeded. Please wait before making more requests.",
                          FALSE, Some(status))
    ELSE IF status >= 500 /\ status < 600
    THEN HtaccessApiError("Server error (" \o ToString(status) \o "). Retrying...",
                          TRUE, Some(status))
    ELSE HtaccessApiError(ClientErrorMessage(status, JsonParse(rawResponse)),
                          FALSE, Some(status))

\* the catch clause of executeRequest for an error that is no HtaccessApiError
CatchRequestError(error) ==
    IF error.name = "AbortError"
    THEN HtaccessApiError("Request timed out", TRUE, Null)
    ELSE IF Includes(error.message, "fetch")
    THEN HtaccessApiError("Network error: " \o error.message, TRUE, Null)
    ELSE HtaccessApiError("Unexpected error: " \o error.name \o ": " \o error.message,
                          FALSE, Null)

\* the try block of executeRequest once a response with an ok status is read
ParseResponse(o, dto) ==
    IF IsNull(dto)
    THEN Threw(CatchRequestError(JsError("SyntaxError", o.message)))
    ELSE IF Val(dto).isNull
    THEN Threw(CatchRequestError(JsError("TypeError",
                 "Cannot read properties of null (reading 'output_url')")))
    ELSE Returned(mapResponseToResult(Val(dto), o.body))

executeRequest(o) ==
    CASE o.kind = "abort" -> Threw(CatchRequestError(JsError("AbortError", o.message)))
      [] o.kind \in {"reject", "body"} ->
             Threw(CatchRequestError(JsError("TypeError", o.message)))
      [] OTHER ->
             IF ~(o.status >= 200 /\ o.status <= 299)
             THEN Threw(handleErrorResponse(o.status, o.body))
             ELSE ParseResponse(o, JsonParse(o.body))

\* the most retries of the client configurations
MaxRetriesSmall == 2

\* testHtaccess entered: config read, lastError undefined, attempt 0
ClientStart(maxRetries) ==
    [pc |-> "request", maxRetries |-> maxRetries, attempt |-> 0, lastError |-> Null,
     requests |-> <<>>, slept |-> <<>>, returned |-> Null, thrown |-> Null]

\* the catch clause of the retry loop
CatchAttempt(c, error) ==
    IF error.name = "HtaccessApiError"
    THEN IF ~error.isRetryable
         THEN [c EXCEPT !.lastError = Some(error), !.thrown = Some(error), !.pc = "thrown"]
         ELSE IF c.attempt < c.maxRetries
         THEN [c EXCEPT !.lastError = Some(error), !.pc = "sleep"]
         ELSE [c EXCEPT !.lastError = Some(error), !.attempt = @ + 1]
    ELSE [c EXCEPT !.lastError = Some(error), !.thrown = Some(error), !.pc = "thrown"]

\* the client after one executeRequest call came to r
AfterAttempt(c, r) ==
    IF r.ok THEN [c EXCEPT !.returned = Some(r.result), !.pc = "returned"]
    ELSE CatchAttempt(c, r.error)

\* one pass of the retry loop: executeRequest and the catch clause
Attempt ==
    /\ client.pc = "request"
    /\ client.attempt <= client.maxRetries
    /\ \E o \in FetchOutcomes :
           client' = AfterAttempt([client EXCEPT !.requests = Append(@, o)],
                                  executeRequest(o))
    /\ UNCHANGED <<engineVars, panel, workspaceState>>

\* the delay before the next attempt: min(1000 * 2^attempt, 10000)
Sleep ==
    /\ client.pc = "sleep"
    /\ client' = [client EXCEPT
                     !.slept = Append(@, IF 1000 * 2^client.attempt < 10000
                                         THEN 1000 * 2^client.attempt ELSE 10000),
                     !.attempt = @ + 1,
                     !.pc = "request"]
    /\ UNCHANGED <<engineVars, panel, workspaceState>>

\* the loop has ended: throw lastError ?? new HtaccessApiError('Unknown error occurred')
Exhausted ==
    /\ client.pc = "request"
    /\ client.attempt > client.maxRetries
    /\ client' = [client EXCEPT
                     !.thrown = IF IsNull(client.lastError)
                                THEN Some(HtaccessApiError("Unknown error occurred", FALSE, Null))
                                ELSE client.lastError,
                     !.pc = "thrown"]
    /\ UNCHANGED <<engineVars, panel, workspaceState>>

NextClient == Attempt \/ Sleep \/ Exhausted

\* no evaluate call is running
EngineIdle ==
    /\ input = [url |-> "http://h.c/a", rules |-> "", serverVariables |-> ServerVariables]
    /\ config = DefaultEngineConfig
    /\ state = initState(input)
    /\ doc = parse(input.rules)
    /\ trace = <<>>
    /\ pendingConditions = <<>>
    /\ i = 1
    /\ pc = "idle"
    /\ output = NoOutput

\* one testHtaccess call with up to MaxRetriesSmall retries configured
InitClient ==
    /\ EngineIdle
    /\ client \in {ClientStart(n) : n \in 0..MaxRetriesSmall}
    /\ panel = [pc |-> "idle", payload |-> Null, posted |-> <<>>]
    /\ workspaceState = <<>>

SpecClient == InitClient /\ [][NextClient]_vars

\* ------------------------------------------------------------------------
\* Properties of the retry loop
\* ------------------------------------------------------------------------

\* the outcomes the retry policy names: a timeout, a network error, a 5xx response
IsTimeout(o) == o.kind = "abort"

IsNetworkError(o) == o.kind \in {"reject", "body"}

IsServerError(o) == o.kind = "response" /\ o.status >= 500 /\ o.status < 600

MayBeRetried(o) == IsTimeout(o) \/ IsNetworkError(o) \/ IsServerError(o)

\* the response is a success: an ok status with a body that holds a result
IsSuccess(o) ==
    /\ o.kind = "response" /\ o.status >= 200 /\ o.status <= 299
    /\ ~IsNull(JsonParse(o.body)) /\ ~Val(JsonParse(o.body)).isNull

LastRequest == client.requests[Len(client.requests)]

\* at most maxRetries + 1 attempts are made
AttemptsBounded == Len(client.requests) <= client.maxRetries + 1

\* an attempt is followed by another only after an outcome that may be retried
OnlyRetryableRetried ==
    \A k \in 1..(Len(client.requests) - 1) : MayBeRetried(client.requests[k])

\* the call has thrown, or has left the loop and is about to throw
NoFurtherAttempt ==
    \/ client.pc = "thrown"
    \/ client.pc = "request" /\ client.attempt > client.maxRetries

\* a failure that may not be retried ends the call with no further attempt
NonRetryableThrown ==
    (Len(client.requests) > 0 /\ ~IsSuccess(LastRequest) /\ ~MayBeRetried(LastRequest))
        => NoFurtherAttempt

\* the call returns the result of its last attempt, the only one that succeeded
ReturnsFirstSuccess ==
    client.pc = "returned" =>
        /\ IsSuccess(LastRequest)
        /\ client.returned = Some(executeRequest(LastRequest).result)
        /\ \A k \in 1..(Len(client.requests) - 1) : ~IsSuccess(client.requests[k])

\* the call throws the error of its last attempt
ThrowsLastError ==
    client.pc = "thrown" =>
        /\ Len(client.requests) > 0
        /\ ~executeRequest(LastRequest).ok
        /\ client.thrown = Some(executeRequest(LastRequest).error)

\* C35: testHtaccess makes at most maxRetries + 1 attempts, returns the first
\* success or throws the last error, throws a failure that is not retryable
\* at once, and retries only timeouts, network errors and 5xx responses
RetryPolicy ==
    /\ AttemptsBounded
    /\ ReturnsFirstSuccess
    /\ ThrowsLastError
    /\ NonRetryableThrown
    /\ OnlyRetryableRetried

\* ------------------------------------------------------------------------
\* Saved test cases (storage/savedTests.ts) and their panel handlers
\* ------------------------------------------------------------------------

\* cases.findIndex(c => c.name === name) as a 1-based position, 0 when absent
findIndex(cases, name) ==
    IF \E k \in 1..Len(cases) : cases[k].name = name
    THEN CHOOSE k \in 1..Len(cases) :
             /\ cases[k].name = name
             /\ \A j \in 1..(k - 1) : cases[j].name /= name
    ELSE 0

\* saveTestCase that pushes whatever is stored
saveTestCaseAlwaysPush(cases, testCase) == Append(cases, testCase)

\* the list saveTestCase stores
saveTestCase(cases, testCase) ==
    IF findIndex(cases, testCase.name) >= 1
    THEN [cases EXCEPT ![findIndex(cases, testCase.name)] = testCase]
    ELSE Append(cases, testCase)

NameIsNot(name, c) == c.name /= name

\* the list deleteTestCase stores
deleteTestCase(cases, name) == SelectSeq(cases, LAMBDA c : NameIsNot(name, c))

\* cases.find(c => c.name === name): Null stands for undefined
getTestCase(cases, name) ==
    IF findIndex(cases, name) = 0 THEN Null ELSE Some(cases[findIndex(cases, name)])

\* the names the input box returns: undefined when dismissed, the empty text,
\* and two names
InputBoxNames == {Null, Some(""), Some("a"), Some("b")}

CaseNames == {"a", "b", "c"}

\* the requests the webview sends along with promptSaveTestCase
StorePayloads ==
    {[url |-> u, rules |-> "RewriteEngine On", serverVariables |-> ServerVariables] :
        u \in {"http://h.c/a", "http://h.c/b"}}

\* the most messages the panel posts while handling storage messages
MaxStoreMessages == 3

\* sendSavedTestCases: the message it posts
SavedTestCasesMessage(cases) == [type |-> "savedTestCases", payload |-> cases]

TestCaseOf(name, payload) ==
    [name |-> name, url |-> payload.url, rules |-> payload.rules,
     serverVariables |-> payload.serverVariables]

\* handleMessage for promptSaveTestCase: nothing is saved when the input box
\* gives no name
PromptAndSaveTestCase ==
    /\ panel.pc = "idle"
    /\ Len(panel.posted) < MaxStoreMessages
    /\ \E name \in InputBoxNames, payload \in StorePayloads :
           IF IsNull(name) \/ Val(name) = ""
           THEN /\ panel' = [panel EXCEPT !.payload =
                                 [type |-> "promptSaveTestCase", name |-> name,
                                  payload |-> payload]]
                /\ UNCHANGED workspaceState
           ELSE /\ workspaceState' = saveTestCase(workspaceState, TestCaseOf(Val(name), payload))
                /\ panel' = [panel EXCEPT
                                 !.payload = [type |-> "promptSaveTestCase", name |-> name,
                                              payload |-> payload],
                                 !.posted = Append(@, SavedTestCasesMessage(workspaceState'))]
    /\ UNCHANGED <<engineVars, client>>

\* handleMessage for deleteTestCase
PanelDeleteTestCase ==
    /\ panel.pc = "idle"
    /\ Len(panel.posted) < MaxStoreMessages
    /\ \E name \in CaseNames :
           /\ workspaceState' = deleteTestCase(workspaceState, name)
           /\ panel' = [panel EXCEPT
                            !.payload = [type |-> "deleteTestCase", name |-> name],
                            !.posted = Append(@, SavedTestCasesMessage(workspaceState'))]
    /\ UNCHANGED <<engineVars, client>>

\* handleMessage for loadTestCase: the rules of the case go to the editor
LoadTestCase ==
    /\ panel.pc = "idle"
    /\ Len(panel.posted) < MaxStoreMessages
    /\ \E name \in CaseNames :
           panel' = [panel EXCEPT
                        !.payload = [type |-> "loadTestCase", name |-> name],
                        !.posted =
                            IF IsNull(getTestCase(workspaceState, name)) THEN @
                            ELSE Append(@, [type |-> "editorContent",
                                            payload |-> [rules |-> Val(getTestCase(workspaceState, name)).rules,
                                                         filePath |-> ""]])]
    /\ UNCHANGED <<engineVars, client, workspaceState>>

NextStore == PromptAndSaveTestCase \/ PanelDeleteTestCase \/ LoadTestCase

InitStore == EngineIdle /\ ExtensionIdle

SpecStore == InitStore /\ [][NextStore]_vars

\* ------------------------------------------------------------------------
\* Properties of the saved test cases
\* ------------------------------------------------------------------------

\* no two stored cases have the same name
UniqueNames(cases) ==
    \A j, k \in 1..Len(cases) : j /= k => cases[j].name /= cases[k].name

\* how many of the first k cases have another name than name
RankAmongOthers(cases, k, name) ==
    Cardinality({j \in 1..k : cases[j].name /= name})

\* the cases of the other names are the same, in the same order
OthersKeptInOrder(before, after, name) ==
    /\ RankAmongOthers(after, Len(after), name) = RankAmongOthers(before, Len(before), name)
    /\ \A k \in 1..Len(before) :
           before[k].name /= name =>
               \E j \in 1..Len(after) :
                   /\ after[j] = before[k]
                   /\ RankAmongOthers(after, j, name) = RankAmongOthers(before, k, name)

\* the message the step handles
Handled(type) == panel'.payload.type = type

\* a save under a name: the case is then the one found under the name, it
\* takes the place of the case of that name or the end of the list
SaveStep ==
    (Handled("promptSaveTestCase") /\ ~IsNull(panel'.payload.name)
         /\ Val(panel'.payload.name) /= "") =>
        /\ getTestCase(workspaceState', Val(panel'.payload.name))
               = Some(TestCaseOf(Val(panel'.payload.name), panel'.payload.payload))
        /\ IF \E k \in 1..Len(workspaceState) :
                  workspaceState[k].name = Val(panel'.payload.name)
           THEN /\ Len(workspaceState') = Len(workspaceState)
                /\ \A k \in 1..Len(workspaceState) :
                       workspaceState'[k].name = workspaceState[k].name
           ELSE /\ Len(workspaceState') = Len(workspaceState) + 1
                /\ workspaceState'[Len(workspaceState')].name = Val(panel'.payload.name)
        /\ OthersKeptInOrder(workspaceState, workspaceState', Val(panel'.payload.name))

\* a delete of a name: no case is found under the name afterwards
DeleteStep ==
    Handled("deleteTestCase") =>
        /\ IsNull(getTestCase(workspaceState', panel'.payload.name))
        /\ OthersKeptInOrder(workspaceState, workspaceState', panel'.payload.name)

\* a dismissed prompt and a load store nothing
OtherStoreStep ==
    (\/ Handled("loadTestCase")
     \/ Handled("promptSaveTestCase")
            /\ (IsNull(panel'.payload.name) \/ panel'.payload.name = Some("")))
        => workspaceState' = workspaceState

\* C40: the stored list holds at most one case per name; a save replaces the
\* case of its name in place or appends and is what getTestCase then finds, a
\* delete leaves nothing to find under its name, and both keep the other
\* cases in order
OneCasePerName ==
    [][SaveStep /\ DeleteStep /\ OtherStoreStep /\ UniqueNames(workspaceState')]_vars

\* two cases are stored and the first was then replaced in place
ReplacedInPlace ==
    /\ Len(panel.posted) = 3
    /\ \A k \in 1..3 : panel.posted[k].type = "savedTestCases"
    /\ Len(panel.posted[2].payload) = 2
    /\ Len(workspaceState) = 2
    /\ workspaceState[1].name = panel.posted[2].payload[1].name
    /\ workspaceState[1].url /= panel.posted[2].payload[1].url
    /\ workspaceState[2] = panel.posted[2].payload[2]
    /\ panel.payload.type = "promptSaveTestCase"

\* ------------------------------------------------------------------------
\* Request validation (util/validation.ts), the test service and runTest
\* ------------------------------------------------------------------------

\* the validators give Null when valid, the message when not
validateUrlTrimmed(trimmed) ==
    IF ~StartsWith(trimmed, "http://") /\ ~StartsWith(trimmed, "https://")
    THEN Some("URL must start with http:// or https://")
    ELSE IF IsNull(JsUrl(trimmed)) THEN Some("Invalid URL format") ELSE Null

validateUrl(url) ==
    IF url = "" \/ Len(Trim(url)) = 0 THEN Some("URL is required")
    ELSE validateUrlTrimmed(Trim(url))

validateRules(rules) ==
    IF rules = "" \/ Len(Trim(rules)) = 0 THEN Some("Htaccess rules are required") ELSE Null

validateServerVariables(variables) ==
    IF \E key \in DOMAIN variables : key = "" \/ Len(Trim(key)) = 0
    THEN Some("Server variable names cannot be empty")
    ELSE Null

validateTestRequest(url, rules, serverVariables) ==
    IF ~IsNull(validateUrl(url)) THEN validateUrl(url)
    ELSE IF ~IsNull(validateRules(rules)) THEN validateRules(rules)
    ELSE validateServerVariables(serverVariables)

\* what runTest's try block throws before the request is sent: the TypeError
\* of a message without payload, or the validation error of the service
TestThrows(payload) ==
    IF IsNull(payload)
    THEN Some("Cannot read properties of undefined (reading 'url')")
    ELSE validateTestRequest(Val(payload).url, Val(payload).rules,
                             Val(payload).serverVariables)

\* the payloads of the runTest messages: none, and requests with the URLs,
\* rules and server variables the validators tell apart
RunPayloads ==
    {Null} \cup
    {Some([url |-> u, rules |-> r, serverVariables |-> v]) :
        u \in {"", "x", "http://h c/a", " http://h.c/a"},
        r \in {" ", "RewriteEngine On"},
        v \in {ServerVariables, [key \in {" "} |-> "v"]}}

\* the retry settings runTest is run under
RunRetries == {0, 1}

\* the most runTest messages the panel handles
MaxRuns == 2

LoadingMessage(isLoading) == [type |-> "loading", payload |-> [isLoading |-> isLoading]]

TestErrorMessage(message) == [type |-> "testError", payload |-> [message |-> message]]

TestResultMessage(result) == [type |-> "testResult", payload |-> result]

\* the try block threw: the catch clause, then the finally clause
CatchAndFinally(message) == <<TestErrorMessage(message), LoadingMessage(FALSE)>>

\* a catch clause after which the finally clause does not run
SettledMessagesWithoutFinally(c) ==
    IF c.pc = "returned"
    THEN <<TestResultMessage(Val(c.returned)), LoadingMessage(FALSE)>>
    ELSE <<TestErrorMessage(Val(c.thrown).message)>>

\* what runTest posts once testHtaccess has returned or thrown
SettledMessages(c) ==
    IF c.pc = "returned"
    THEN <<TestResultMessage(Val(c.returned)), LoadingMessage(FALSE)>>
    ELSE CatchAndFinally(Val(c.thrown).message)

\* handleMessage for runTest up to the first await that waits: loading is
\* posted, the request validated and, when valid, sent
RunTest ==
    /\ panel.pc = "idle"
    /\ Len(panel.posted) < 3 * MaxRuns
    /\ \E payload \in RunPayloads, n \in RunRetries :
           IF ~IsNull(TestThrows(payload))
           THEN /\ panel' = [panel EXCEPT
                                 !.posted = (@ \o <<LoadingMessage(TRUE)>>)
                                                \o CatchAndFinally(Val(TestThrows(payload)))]
                /\ UNCHANGED client
           ELSE /\ panel' = [panel EXCEPT !.pc = "await", !.payload = payload,
                                         !.posted = Append(@, LoadingMessage(TRUE))]
                /\ client' = ClientStart(n)
    /\ UNCHANGED <<engineVars, workspaceState>>

\* testHtaccess has returned or thrown: the rest of runTest
RunTestSettled ==
    /\ panel.pc = "await"
    /\ client.pc \in {"returned", "thrown"}
    /\ panel' = [panel EXCEPT !.pc = "idle", !.payload = Null,
                              !.posted = @ \o SettledMessages(client)]
    /\ client' = [client EXCEPT !.pc = "idle", !.maxRetries = 0, !.attempt = 0,
                                !.lastError = Null, !.requests = <<>>, !.slept = <<>>,
                                !.returned = Null, !.thrown = Null]
    /\ UNCHANGED <<engineVars, workspaceState>>

NextPanel == RunTest \/ Attempt \/ Sleep \/ Exhausted \/ RunTestSettled

InitPanel == EngineIdle /\ ExtensionIdle

SpecPanel == InitPanel /\ [][NextPanel]_vars

\* ------------------------------------------------------------------------
\* Properties of runTest
\* ------------------------------------------------------------------------

\* the webview's handleMessage run over the posted messages: the flag the
\* last loading message has set
WebviewLoading(posted) ==
    /\ \E k \in 1..Len(posted) : posted[k].type = "loading"
    /\ posted[CHOOSE k \in 1..Len(posted) :
                  /\ posted[k].type = "loading"
                  /\ \A j \in (k + 1)..Len(posted) : posted[j].type /= "loading"
             ].payload.isLoading

\* the k-th posted message is the one its place in a run asks for
PostedInPlace(k) ==
    CASE k % 3 = 1 -> panel.posted[k] = LoadingMessage(TRUE)
      [] k % 3 = 2 -> panel.posted[k].type \in {"testResult", "testError"}
      [] OTHER -> panel.posted[k] = LoadingMessage(FALSE)

\* C39: for every runTest message the panel posts loading true, then one of
\* testResult and testError, then loading false, also when validation or the
\* service throws; between runs the webview is not loading
RunTestPostsInOrder ==
    /\ \A k \in 1..Len(panel.posted) : PostedInPlace(k)
    /\ panel.pc = "await" => Len(panel.posted) % 3 = 1
    /\ panel.pc = "idle" =>
           Len(panel.posted) % 3 = 0 /\ ~WebviewLoading(panel.posted)

\* a run that failed validation and a run whose request timed out have both
\* ended with loading false
TwoFailedRunsPosted ==
    /\ panel.pc = "idle"
    /\ Len(panel.posted) = 6
    /\ panel.posted[2] = TestErrorMessage("URL is required")
    /\ panel.posted[5] = TestErrorMessage("Request timed out")
    /\ panel.posted[6] = LoadingMessage(FALSE)
====
